---- MODULE Spec2Model ----
(***************************************************************************)
(* A model of the ESG extraction pipeline (lightmonte/ESG-Claude):         *)
(*   - retryWithBackoff / isRetryableError      (the Backoff Invoker)      *)
(*   - concurrentMap                            (the bounded fan-out)      *)
(*   - extractDataFromUrl                       (the Orchestrator)         *)
(*   - createBatchExtractionRequest             (the Batch Coordinator)    *)
(*   - the normalisation of a parsed record                                *)
(*   - parseJSON, one call of either version    (the Response Parser)      *)
(*   - processBatchResults and the polling      (a batch job's life)      *)
(*   - the mapping of the XML sections          (mappedData)               *)
(*   - getIndustryCriteria                      (the Criteria Provider)    *)
(* Each part has its own specification over its own variables; the other   *)
(* variables stay at their idle values.                                    *)
(***************************************************************************)
EXTENDS Integers, Sequences, FiniteSets, TLC

VARIABLES
    \* ---- retryWithBackoff (src/src/claude-extractor.js:34-56)
    maxRetries,   \* the maxRetries argument
    rpc,          \* position in retryWithBackoff
    retries,      \* let retries
    delay,        \* let delay
    calls,        \* number of times fn() has been invoked
    sleeps,       \* the delays slept so far, in order
    curErr,       \* the error caught by the current iteration
    thrown,       \* the error retryWithBackoff rejected with
    \* ---- concurrentMap (src/unnamed/part_004:295-313)
    items,        \* the number of items; item i is the i-th input
    concurrency,  \* the concurrency argument
    cpc,          \* position of concurrentMap's own body
    nextItem,     \* index of the item the for loop takes next
    executing,    \* const executing = new Set()
    started,      \* items whose fn(item) has been invoked
    settled,      \* item -> "pending" | "fulfilled" | "rejected" (promise p)
    raceSet,      \* the promises handed to Promise.race by the pending await
    results,      \* const results = [], the promises in the order pushed
    cReturn,      \* the array concurrentMap resolved with
    \* ---- extractDataFromUrl (src/src/claude-extractor.js:61-692)
    company,      \* the argument: url, industry, shouldUpdate, customPrompt
    epc,          \* position in extractDataFromUrl
    extractedWebContent, \* let extractedWebContent: "null" or "content"
    industrySpecificPrompt, \* is getIndustryPrompt's result non-null
    promptUsed,   \* which prompt went into apiRequest
    respKind,     \* what the model call did: "text" | "no_text" | "thrown"
    responseText, \* const responseText
    parseSuccess, \* let parseSuccess
    extractedJson,  \* let extractedJson (the kind of value parsed)
    strategiesRun,  \* the recovery strategies run so far, in order
    rawStore,     \* <companyId>_raw_response.txt: {} or {its content}
    recordStore,  \* <companyId>_extracted.json: {} or {its content}
    statusStore,  \* processing_status.extraction_status of the company
    statusWrites, \* the updateProcessingStatus calls of this run, in order
    result,       \* what extractDataFromUrl returned
    \* ---- createBatchExtractionRequest, processBatchResults (src/unnamed/part_003)
    members,      \* the companies argument: the URL of each; companyId = index
    bpc,          \* position in the batch functions
    vIdx,         \* the company the validation loop takes next
    validCompanies,   \* const validCompanies (company ids)
    invalidCompanies, \* const invalidCompanies (company id and message)
    batchRequests,    \* const batchRequests (custom_id of each request)
    submitted,    \* the request lists handed to batches.create, in order
    batchInfo,    \* the batches row and its batch_companies rows
    bStatus,      \* company id -> processing_status row
    rIdx,         \* the result the results loop takes next
    bResult,      \* company id -> type of the result streamed for it
    bUpstream,    \* company id -> result.result.error.message ("none": it has none)
    bError,       \* company id -> error of the result pushed for a result not succeeded
    bText,        \* company id -> responseText of its succeeded result
    bRaw,         \* company id -> <companyId>_raw_response.txt
    bRecord,      \* company id -> <companyId>_extracted.json
    bTried,       \* company id -> the parsers run on its response, in order
    \* ---- the success path: from a parsed record to the saved one
    nVersion,     \* which success path runs
    relevantCriteria, \* the number of criteria of the industry; ids 1..n
    npc,          \* position in the success path
    extractedData,    \* let extractedData: criteria values, carbonFootprint, companyDetails
    nStore,       \* <companyId>_extracted.json: {} or {its content}
    nStatus,      \* processing_status.extraction_status of the company
    \* ---- one call of parseJSON(responseText)
    pVersion,     \* which parseJSON is called
    pText,        \* its argument
    ppc,          \* position of the call
    pResult,      \* the object it returned
    \* ---- batch jobs across runs: index.js main (batch mode), processBatchResults,
    \* ---- checkAndProcessCompletedBatches (src/unnamed/part_003:258-716)
    jUpstream,    \* batch id -> processing_status of the job at the API ("none": not created)
    jRow,         \* batch id -> batches.status of its row ("none": no row)
    jMembers,     \* batch id -> the company ids of its batch_companies rows
    jStatus,      \* company id -> processing_status.extraction_status
    jStored,      \* the company ids that have an <companyId>_extracted.json
    jStreamed,    \* batch id -> who read its result stream, in order
    jpc,          \* "idle" between calls, "poll" inside checkAndProcessCompletedBatches
    jQueue,       \* the active batches the loop of checkAndProcessCompletedBatches has left
    jCalls,       \* number of direct calls of processBatchResults so far
    jCall,        \* the last processBatchResults call: what it retrieved and returned
    \* ---- the XML branch: mappedData (src/src/claude-extractor.js:331-396)
    xField,       \* which criteria<k>_actions_solutions tag the response holds
    xContent,     \* the characters between its tags
    xYear,        \* new Date().getFullYear() at the time of the run
    xpc,          \* position
    xData,        \* const mappedData
    \* ---- getIndustryCriteria(industry) (src/src/lib/esg-criteria.js:96-145)
    gTable,       \* the keys of industrySimpleCriteria once the CSV is loaded
    gIndustry,    \* the argument
    gpc,          \* position of the call
    gResult       \* what the call resolved with

retryVars == <<maxRetries, rpc, retries, delay, calls, sleeps, curErr, thrown>>
cmapVars == <<items, concurrency, cpc, nextItem, executing, started, settled, raceSet, results, cReturn>>

extVars == <<company, epc, extractedWebContent, industrySpecificPrompt, promptUsed, respKind, responseText,
             parseSuccess, extractedJson, strategiesRun, rawStore, recordStore,
             statusStore, statusWrites, result>>

batchVars == <<members, bpc, vIdx, validCompanies, invalidCompanies, batchRequests,
               submitted, batchInfo, bStatus, rIdx, bResult, bUpstream, bError, bText, bRaw,
               bRecord, bTried>>

normVars == <<nVersion, relevantCriteria, npc, extractedData, nStore, nStatus>>

parseVars == <<pVersion, pText, ppc, pResult>>

critVars == <<gTable, gIndustry, gpc, gResult>>

xmlVars == <<xField, xContent, xYear, xpc, xData>>

jobVars == <<jUpstream, jRow, jMembers, jStatus, jStored, jStreamed, jpc, jQueue, jCalls, jCall>>

vars == <<retryVars, cmapVars, extVars, batchVars, normVars, parseVars, jobVars, xmlVars, critVars>>

nonRetryVars == <<cmapVars, extVars, batchVars, normVars, parseVars, jobVars, xmlVars, critVars>>
nonCMapVars == <<retryVars, extVars, batchVars, normVars, parseVars, jobVars, xmlVars, critVars>>
nonExtVars == <<retryVars, cmapVars, batchVars, normVars, parseVars, jobVars, xmlVars, critVars>>
nonBatchVars == <<retryVars, cmapVars, extVars, normVars, parseVars, jobVars, xmlVars, critVars>>
nonNormVars == <<retryVars, cmapVars, extVars, batchVars, parseVars, jobVars, xmlVars, critVars>>
nonJobVars == <<retryVars, cmapVars, extVars, batchVars, normVars, parseVars, xmlVars, critVars>>

(***************************************************************************)
(* Bounds of the model.                                                    *)
(***************************************************************************)
MaxMaxRetries == 3
MaxItems == 3
MaxConcurrency == 2
MaxMembers == 2
MaxCriteria == 2
MaxCfKeys == 2
MaxBatches == 2
MaxRecords == 1
MaxCalls == 1
MaxContentLen == 3

(***************************************************************************)
(* Program constants.                                                      *)
(***************************************************************************)
InitialDelay == 2000
JitterRange == 1000

----------------------------------------------------------------------------
(***************************************************************************)
(* Errors thrown by the wrapped operation. error.error?.type is the type   *)
(* tag ("none": the error has no .error field); msg says which of the      *)
(* substrings isRetryableError looks for the message contains ("plain":    *)
(* none of them). id is the attempt that threw it (object identity).       *)
(***************************************************************************)
NoError == [type |-> "none", msg |-> "plain", id |-> 0]
Errors(i) ==
    LET ErrorMsgs == {"plain", "429", "overloaded", "rate limit"}
    IN
    LET ErrorTypes == {"overloaded_error", "authentication_error", "api_error", "none"}
    IN  [type : ErrorTypes, msg : ErrorMsgs, id : {i}]

\* error-handler.js isRetryableError: const isOverloadedError = ...
IsOverloadedError(error) ==
    \/ error.type = "overloaded_error"
    \/ error.msg = "429"
    \/ error.msg = "overloaded"
    \/ error.msg = "rate limit"

IdleRetry ==
    /\ maxRetries = 0
    /\ rpc = "idle"
    /\ retries = 0
    /\ delay = 0
    /\ calls = 0
    /\ sleeps = <<>>
    /\ curErr = NoError
    /\ thrown = NoError

\* return await fn(): the operation succeeds
RetryCallOk ==
    /\ rpc = "call"
    /\ calls' = calls + 1
    /\ rpc' = "returned"
    /\ UNCHANGED <<maxRetries, retries, delay, sleeps, curErr, thrown>>
    /\ UNCHANGED nonRetryVars

\* return await fn(): the operation throws
RetryCallFails ==
    /\ rpc = "call"
    /\ calls' = calls + 1
    /\ \E e \in Errors(calls + 1) : curErr' = e
    /\ rpc' = "caught"
    /\ UNCHANGED <<maxRetries, retries, delay, sleeps, thrown>>
    /\ UNCHANGED nonRetryVars

\* catch (error) { retries++; if (...) throw error; ... await sleep(delay)
RetryCatch ==
    LET \* error-handler.js isRetryableError(error, retryCount, maxRetries)
        IsRetryableError(error, retryCount, max) ==
            IF retryCount >= max THEN FALSE ELSE IsOverloadedError(error)
    IN
    LET \* The catch block's test: rethrow?
        RetryGivesUp(error, n, max) ==
            n > max \/ ~IsRetryableError(error, n, max)
    IN
    /\ rpc = "caught"
    /\ retries' = retries + 1
    /\ IF RetryGivesUp(curErr, retries + 1, maxRetries)
         THEN /\ rpc' = "thrown"
              /\ thrown' = curErr
              /\ sleeps' = sleeps
         ELSE /\ rpc' = "sleep"
              /\ sleeps' = Append(sleeps, delay)
              /\ thrown' = thrown
    /\ UNCHANGED <<maxRetries, delay, calls, curErr>>
    /\ UNCHANGED nonRetryVars

\* sleep(delay) is over: delay = delay * 2 + jitter, next iteration
RetryWake ==
    LET \* The values Math.floor(Math.random() * 1000) is drawn from: the two ends.
        JitterValues == {0, JitterRange - 1}
    IN
    /\ rpc = "sleep"
    /\ \E j \in JitterValues : delay' = delay * 2 + j
    /\ rpc' = "call"
    /\ UNCHANGED <<maxRetries, retries, calls, sleeps, curErr, thrown>>
    /\ UNCHANGED nonRetryVars

NextRetry == RetryCallOk \/ RetryCallFails \/ RetryCatch \/ RetryWake

(***************************************************************************)
(* concurrentMap(items, fn, concurrency). The for loop runs synchronously  *)
(* until its await; promise reactions (fn's start, clean, the race) run    *)
(* only while the loop is suspended.                                       *)
(***************************************************************************)
Items == 1..items
InFlight == {i \in started : settled[i] = "pending"}

IdleCMap ==
    /\ items = 0
    /\ concurrency = 0
    /\ cpc = "idle"
    /\ nextItem = 0
    /\ executing = {}
    /\ started = {}
    /\ settled = <<>>
    /\ raceSet = {}
    /\ results = <<>>
    /\ cReturn = <<>>

\* A loop that waits only once the set is over the limit.
MustWaitOverLimit(size, limit) == size > limit

\* if (executing.size >= concurrency)
MustWait(size, limit) == size >= limit

\* A loop that puts each new promise in front of the earlier ones.
ResultsUnshift(rs, p) == <<p>> \o rs

\* results.push(p)
ResultsPush(rs, p) == Append(rs, p)

\* One iteration of the for loop: p = Promise.resolve().then(() => fn(item));
\* results.push(p); executing.add(p); ...; if (...) await Promise.race(executing)
CMapSpawn ==
    /\ cpc = "loop"
    /\ nextItem <= items
    /\ executing' = executing \cup {nextItem}
    /\ nextItem' = nextItem + 1
    /\ results' = ResultsPush(results, nextItem)
    /\ IF MustWait(Cardinality(executing'), concurrency)
         THEN cpc' = "await" /\ raceSet' = executing'
         ELSE cpc' = "loop" /\ raceSet' = raceSet
    /\ UNCHANGED <<items, concurrency, started, settled, cReturn>>
    /\ UNCHANGED nonCMapVars

\* The loop is over: return Promise.all(results)
CMapGather ==
    /\ cpc = "loop"
    /\ nextItem > items
    /\ cpc' = "all"
    /\ UNCHANGED <<items, concurrency, nextItem, executing, started, settled, raceSet, results, cReturn>>
    /\ UNCHANGED nonCMapVars

\* The reaction of Promise.resolve().then(...): fn(item) is invoked
CMapStartFn(i) ==
    /\ cpc \in {"await", "all", "rejected"}
    /\ i \in executing
    /\ i \notin started
    /\ started' = started \cup {i}
    /\ UNCHANGED <<items, concurrency, cpc, nextItem, executing, settled, raceSet, results, cReturn>>
    /\ UNCHANGED nonCMapVars

\* fn(item) settles, and so does p
CMapSettle(i) ==
    /\ cpc \in {"await", "all", "rejected"}
    /\ i \in started
    /\ settled[i] = "pending"
    /\ \E o \in {"fulfilled", "rejected"} : settled' = [settled EXCEPT ![i] = o]
    /\ UNCHANGED <<items, concurrency, cpc, nextItem, executing, started, raceSet, results, cReturn>>
    /\ UNCHANGED nonCMapVars

\* p.then(clean).catch(clean): executing.delete(p)
CMapClean(i) ==
    /\ cpc \in {"await", "all", "rejected"}
    /\ i \in executing
    /\ settled[i] # "pending"
    /\ executing' = executing \ {i}
    /\ UNCHANGED <<items, concurrency, cpc, nextItem, started, settled, raceSet, results, cReturn>>
    /\ UNCHANGED nonCMapVars

\* await Promise.race(executing) resumes: a promise of the race has settled. Its
\* clean reaction was registered before the race's, so it has run.
CMapResume ==
    /\ cpc = "await"
    /\ \E w \in raceSet :
         /\ settled[w] # "pending"
         /\ w \notin executing
         /\ cpc' = IF settled[w] = "rejected" THEN "rejected" ELSE "loop"
    /\ raceSet' = {}
    /\ UNCHANGED <<items, concurrency, nextItem, executing, started, settled, results, cReturn>>
    /\ UNCHANGED nonCMapVars

\* Promise.all(results) settles
CMapDone ==
    /\ cpc = "all"
    /\ \/ /\ \A i \in Items : settled[i] = "fulfilled"
          /\ cpc' = "done"
          \* the values of the promises, in the order of results; p's value is fn(item)
          /\ cReturn' = [k \in DOMAIN results |-> <<"fn", results[k]>>]
       \/ /\ \E i \in Items : settled[i] = "rejected"
          /\ cpc' = "rejected"
          /\ cReturn' = cReturn
    /\ UNCHANGED <<items, concurrency, nextItem, executing, started, settled, raceSet, results>>
    /\ UNCHANGED nonCMapVars

NextCMap ==
    \/ CMapSpawn
    \/ CMapGather
    \/ \E i \in Items : CMapStartFn(i)
    \/ \E i \in Items : CMapSettle(i)
    \/ \E i \in Items : CMapClean(i)
    \/ CMapResume
    \/ CMapDone

----------------------------------------------------------------------------
(***************************************************************************)
(* Response texts. A text is a sequence of lines, one token a line:        *)
(*   "J"  a complete JSON object of 81 characters (the payload)            *)
(*   "{" "}"  a lone brace                                                 *)
(*   "w"  a line of prose                                                  *)
(*   "p"  a "key": "value pair whose closing quote is missing              *)
(*   "F"  a ``` fence                                                      *)
(*   "X" "Y"  <sustainability_analysis> and </sustainability_analysis>     *)
(*   "D"  a complete JSON object on one line, one string of which holds a  *)
(*        fenced block: {"abstract":"``` {} ``` is how ... was fenced"}    *)
(*   "W"  a paragraph of prose of 600 characters on one line (only among   *)
(*        the arguments of the parseJSON calls checked on their own)       *)
(* The pieces of a "D" line: "d1" up to its first fence, "e" the {} between *)
(* its fences, "d2" after its second fence, "dh" up to its first '}'.      *)
(* Parsed values: "J" the payload record, "D" the record of a "D" line,     *)
(* "E" the empty object, "R" a                                             *)
(* record rebuilt from "key": value pairs, "M" a record mapped from XML    *)
(* sections; "invalid" stands for a JSON.parse that throws.                *)
(***************************************************************************)
MaxTextLen == 3
MinObjectLength == 50
OriginalTextLength == 500
EmptyTextLength == 100

Tokens == {"J", "D", "{", "}", "w", "p", "F", "X", "Y"}

RECURSIVE TextLength(_)
TextLength(t) ==
    LET TokLen(k) ==
            CASE k = "J" -> 81
              [] k = "{" -> 1
              [] k = "}" -> 1
              [] k = "w" -> 18
              [] k = "p" -> 21
              [] k = "F" -> 3
              [] k = "X" -> 25
              [] k = "Y" -> 26
              [] k = "D" -> 84
              [] k = "d1" -> 13
              [] k = "e" -> 2
              [] k = "d2" -> 61
              [] k = "dh" -> 19
              [] k = "W" -> 600
    IN
    IF t = <<>> THEN 0
    ELSE IF Len(t) = 1 THEN TokLen(t[1])
    ELSE TokLen(Head(t)) + 1 + TextLength(Tail(t))

Min(S) == CHOOSE x \in S : \A y \in S : x <= y
Max(S) == CHOOSE x \in S : \A y \in S : x >= y

OpensBrace(k) == k \in {"J", "D", "{", "d1", "e", "dh"}
ClosesBrace(k) == k \in {"J", "D", "}", "d2", "e", "dh"}

\* JSON.parse(text)
JsonParse(t) ==
    IF t = <<"J">> THEN "J"
    ELSE IF t = <<"D">> THEN "D"
    ELSE IF t = <<"{", "}">> \/ t = <<"e">> THEN "E"
    ELSE "invalid"

\* trimmed.startsWith('{') && trimmed.endsWith('}')
BraceWrapped(t) == t # <<>> /\ OpensBrace(t[1]) /\ ClosesBrace(t[Len(t)])

\* The first candidate of at least minLen characters that JSON.parse accepts
RECURSIVE FirstParsed(_, _)
FirstParsed(cands, minLen) ==
    IF cands = <<>> THEN "invalid"
    ELSE IF TextLength(Head(cands)) > minLen /\ JsonParse(Head(cands)) # "invalid"
           THEN JsonParse(Head(cands))
           ELSE FirstParsed(Tail(cands), minLen)

\* Strategy 1 / direct_parse
DirectParse(t) == IF BraceWrapped(t) THEN JsonParse(t) ELSE "invalid"

\* responseText.match(/```(?:json)?\s*([\s\S]*?)\s*```/g), fences stripped
RECURSIVE CodeBlocks(_, _)
CodeBlocks(t, i) ==
    LET opening == {a \in i..Len(t) : t[a] = "F"} IN
    IF opening = {} THEN <<>>
    ELSE LET a == Min(opening)
             closing == {b \in (a + 1)..Len(t) : t[b] = "F"}
         IN  IF closing = {} THEN <<>>
             ELSE <<SubSeq(t, a + 1, Min(closing) - 1)>>
                      \o CodeBlocks(t, Min(closing) + 1)

RECURSIVE FirstWrappedParsed(_)
FirstWrappedParsed(cands) ==
    IF cands = <<>> THEN "invalid"
    ELSE IF BraceWrapped(Head(cands)) /\ JsonParse(Head(cands)) # "invalid"
           THEN JsonParse(Head(cands))
           ELSE FirstWrappedParsed(Tail(cands))

\* A text with the fences of its "D" lines set apart
RECURSIVE FencesApart(_)
FencesApart(t) ==
    IF t = <<>> THEN <<>>
    ELSE (IF Head(t) = "D" THEN <<"d1", "F", "e", "F", "d2">> ELSE <<Head(t)>>)
             \o FencesApart(Tail(t))

\* Strategy 2 / code_block
CodeBlockParse(t) == FirstWrappedParsed(CodeBlocks(FencesApart(t), 1))

\* The depth scan for balanced {...}: start = 0 stands for the code's -1.
\* reset says whether a negative depth is reset (findBalancedJSONObjects does,
\* the scan inlined in extractDataFromUrl does not).
RECURSIVE ScanObjects(_, _, _, _, _)
ScanObjects(t, i, depth, start, reset) ==
    IF i > Len(t) THEN <<>>
    ELSE IF t[i] = "{"
      THEN ScanObjects(t, i + 1, depth + 1, IF depth = 0 THEN i ELSE start, reset)
    ELSE IF t[i] = "}"
      THEN IF depth - 1 = 0 /\ start # 0
             THEN <<SubSeq(t, start, i)>> \o ScanObjects(t, i + 1, 0, 0, reset)
           ELSE IF depth - 1 < 0 /\ reset
             THEN ScanObjects(t, i + 1, 0, 0, reset)
           ELSE ScanObjects(t, i + 1, depth - 1, start, reset)
    ELSE IF t[i] \in {"J", "D"}
      THEN IF depth = 0
             THEN <<SubSeq(t, i, i)>> \o ScanObjects(t, i + 1, 0, 0, reset)
           ELSE IF t[i] = "D" /\ depth = -1
             THEN <<<<"e">>>> \o ScanObjects(t, i + 1, depth, 0, reset)
           ELSE ScanObjects(t, i + 1, depth, start, reset)
    ELSE ScanObjects(t, i + 1, depth, start, reset)

\* Strategy 3 of extractDataFromUrl
InlineObjectParse(t) == FirstParsed(ScanObjects(t, 1, 0, 0, FALSE), MinObjectLength)

\* findBalancedJSONObjects(text)
FindBalancedJSONObjects(t) == ScanObjects(t, 1, 0, 0, TRUE)

\* balanced_json
BalancedParse(t) == FirstParsed(FindBalancedJSONObjects(t), MinObjectLength)

\* regex_braces
RegexBracesParse(t) ==
    LET \* /(\{[\s\S]*?\})(?=\s*$|\s*[^\{\}])/: from the first '{' to the first '}'
        \* after it (a line break follows every '}' but the last, so the lookahead
        \* holds); the first '}' of a "D" line is the one between its fences
        RegexBracesMatch(t0) ==
            LET opening == {a \in 1..Len(t0) : OpensBrace(t0[a])} IN
            IF opening = {} THEN <<>>
            ELSE LET a == Min(opening)
                     closing == {b \in a..Len(t0) : ClosesBrace(t0[b])}
                 IN  IF closing = {} THEN <<>>
                     ELSE IF t0[Min(closing)] = "D"
                       THEN <<SubSeq(t0, a, Min(closing) - 1) \o <<"dh">>>>
                     ELSE <<SubSeq(t0, a, Min(closing))>>
    IN  FirstParsed(RegexBracesMatch(t), MinObjectLength)

\* text.match(/\{[^{}]*(\{[^{}]*\})*[^{}]*\}/g)
RECURSIVE BlockMatches(_, _)
BlockMatches(t, i) ==
    LET \* Where a match of /\{[^{}]*(\{[^{}]*\})*[^{}]*\}/ that starts at the lone
        \* '{' of line i0 ends (0: no match starts there)
        BlockEnd(t0, i0) ==
            LET \* The next line at or after j that holds a brace (Len(s) + 1: none)
                NextBrace(s, j) ==
                    Min({b \in j..Len(s) : OpensBrace(s[b]) \/ ClosesBrace(s[b])}
                            \cup {Len(s) + 1})
            IN
            LET n1 == NextBrace(t0, i0 + 1)
                n2 == NextBrace(t0, n1 + 1)
                n3 == NextBrace(t0, n2 + 1)
            IN  IF n1 > Len(t0) THEN 0
                ELSE IF t0[n1] = "}" THEN n1
                ELSE IF t0[n1] = "D" THEN 0
                ELSE IF t0[n1] = "J"
                  THEN IF n2 <= Len(t0) /\ t0[n2] = "}" THEN n2 ELSE 0
                ELSE IF n2 <= Len(t0) /\ t0[n2] = "}" /\ n3 <= Len(t0) /\ t0[n3] = "}"
                  THEN n3
                ELSE 0
    IN
    IF i > Len(t) THEN <<>>
    ELSE IF t[i] \in {"J", "D"} THEN <<SubSeq(t, i, i)>> \o BlockMatches(t, i + 1)
    ELSE IF t[i] = "{" /\ BlockEnd(t, i) # 0
      THEN <<SubSeq(t, i, BlockEnd(t, i))>> \o BlockMatches(t, BlockEnd(t, i) + 1)
    ELSE BlockMatches(t, i + 1)

\* .sort((a, b) => b.length - a.length)
RECURSIVE SortByLengthDesc(_)
SortByLengthDesc(blocks) ==
    LET RemoveAt(q, k) == SubSeq(q, 1, k - 1) \o SubSeq(q, k + 1, Len(q))
    IN
    IF blocks = <<>> THEN <<>>
    ELSE LET longest == Max({TextLength(blocks[k]) : k \in DOMAIN blocks})
             k0 == Min({k \in DOMAIN blocks : TextLength(blocks[k]) = longest})
         IN  <<blocks[k0]>> \o SortByLengthDesc(RemoveAt(blocks, k0))

\* cleaned_json_block (cleanJSONText joins the lines of a block)
CleanedBlockParse(t) ==
    FirstParsed(SortByLengthDesc(BlockMatches(t, 1)), MinObjectLength)

\* The manual "key": value extraction of repairBrokenJSON: does it find a
\* pair? The payload's pair ends at the payload's own '}'. The value of a "p"
\* line runs to the next '}', and is dropped if it swallows another colon.
RECURSIVE ManualPairFound(_, _)
ManualPairFound(s, i) ==
    IF i > Len(s) THEN FALSE
    ELSE IF s[i] \in {"J", "D"} THEN TRUE
    ELSE IF s[i] = "p"
      THEN LET e == Min({b \in (i + 1)..Len(s) : ClosesBrace(s[b])} \cup {Len(s) + 1})
               swallowed == {b \in (i + 1)..e : b <= Len(s) /\ s[b] \in {"J", "D", "p"}}
           IN  IF swallowed = {} THEN TRUE ELSE ManualPairFound(s, e + 1)
    ELSE ManualPairFound(s, i + 1)

\* repairBrokenJSON(text): "invalid" stands for null. A "D" line parses once
\* its fences are removed, to a record that is not the one of the line
RepairBrokenJSON(t) ==
    LET NotFence(k) == k # "F"
    IN
    LET opening == {a \in 1..Len(t) : OpensBrace(t[a])}
        closing == {b \in 1..Len(t) : ClosesBrace(t[b])}
    IN  IF opening = {} \/ closing = {} THEN "invalid"
        ELSE IF Max(closing) < Min(opening) THEN "invalid"
        ELSE LET span == SelectSeq(SubSeq(t, Min(opening), Max(closing)), NotFence)
             IN  IF span = <<"D">> THEN "R"
                 ELSE IF JsonParse(span) # "invalid" THEN JsonParse(span)
                 ELSE IF ManualPairFound(span, 1) THEN "R"
                 ELSE "invalid"

\* responseText.substring(0, n): the whole lines it holds, and how many
\* characters of the line after them
Substring(t, n) ==
    LET k == Max({j \in 0..Len(t) : TextLength(SubSeq(t, 1, j)) <= n})
        used == TextLength(SubSeq(t, 1, k))
    IN  [lines |-> SubSeq(t, 1, k),
         part |-> IF k = Len(t) THEN 0
                  ELSE IF k = 0 THEN n
                  ELSE Max({0, n - used - 1})]

\* An originalText that is the whole text, whatever its length.
OriginalTextWhole(t, n) == [text |-> Substring(t, TextLength(t)), ellipsis |-> TRUE]

\* responseText.substring(0, n) + '...'
OriginalText(t, n) == [text |-> Substring(t, n), ellipsis |-> TRUE]

ParseOk(strategy, data) ==
    LET NoOriginalText == [text |-> Substring(<<>>, 0), ellipsis |-> FALSE]
    IN
    [success |-> TRUE, strategy |-> strategy, data |-> data, message |-> "",
     originalText |-> NoOriginalText]
ParseFailure(message, originalText) ==
    [success |-> FALSE, strategy |-> "none", data |-> "none", message |-> message,
     originalText |-> originalText]

\* A parser that looks into the fenced blocks before it tries the whole text.
ParseJSONFencedFirst(t) ==
    IF t = <<>>
      THEN ParseFailure("Empty or invalid response text", OriginalText(t, EmptyTextLength))
    ELSE IF CodeBlockParse(t) # "invalid" THEN ParseOk("code_block", CodeBlockParse(t))
    ELSE IF DirectParse(t) # "invalid" THEN ParseOk("direct_parse", DirectParse(t))
    ELSE IF BalancedParse(t) # "invalid" THEN ParseOk("balanced_json", BalancedParse(t))
    ELSE IF RegexBracesParse(t) # "invalid"
      THEN ParseOk("regex_braces", RegexBracesParse(t))
    ELSE IF CleanedBlockParse(t) # "invalid"
      THEN ParseOk("cleaned_json_block", CleanedBlockParse(t))
    ELSE IF RepairBrokenJSON(t) # "invalid"
      THEN ParseOk("repaired_json", RepairBrokenJSON(t))
    ELSE ParseFailure(
           "No valid JSON pattern found in the response after trying all strategies",
           OriginalText(t, OriginalTextLength))

\* errorHandler.parseJSON(responseText) (src/unnamed/part_001)
ParseJSON(t) ==
    IF t = <<>>
      THEN ParseFailure("Empty or invalid response text", OriginalText(t, EmptyTextLength))
    ELSE IF DirectParse(t) # "invalid" THEN ParseOk("direct_parse", DirectParse(t))
    ELSE IF CodeBlockParse(t) # "invalid" THEN ParseOk("code_block", CodeBlockParse(t))
    ELSE IF BalancedParse(t) # "invalid" THEN ParseOk("balanced_json", BalancedParse(t))
    ELSE IF RegexBracesParse(t) # "invalid"
      THEN ParseOk("regex_braces", RegexBracesParse(t))
    ELSE IF CleanedBlockParse(t) # "invalid"
      THEN ParseOk("cleaned_json_block", CleanedBlockParse(t))
    ELSE IF RepairBrokenJSON(t) # "invalid"
      THEN ParseOk("repaired_json", RepairBrokenJSON(t))
    ELSE ParseFailure(
           "No valid JSON pattern found in the response after trying all strategies",
           OriginalText(t, OriginalTextLength))

----------------------------------------------------------------------------
(***************************************************************************)
(* One call of parseJSON on a text, for either of its two versions.        *)
(***************************************************************************)
NoParseResult == ParseOk("none", "none")

IdleParse ==
    /\ pVersion = "none"
    /\ pText = <<>>
    /\ ppc = "idle"
    /\ pResult = NoParseResult

\* parseJSON(responseText) returns; no statement of it throws on a string
\* outside its try blocks
ParseReturns ==
    LET \* parseJSON of src/lib/error-handler.js: JSON.parse of the whole text, then
        \* of the first fenced block, then of the span from the first '{' to the last
        \* '}'; a JSON.parse that throws there ends the call with a failure. (Its
        \* third strategy needs a {...} block where the span has found none.)
        ParseJSONBasic(t) ==
            LET blocks == CodeBlocks(FencesApart(t), 1)
                opening == {a \in 1..Len(t) : OpensBrace(t[a])}
                closing == {b \in 1..Len(t) : ClosesBrace(t[b])}
                failed(message) == ParseFailure(message, OriginalText(t, OriginalTextLength))
            IN  IF JsonParse(t) # "invalid" THEN ParseOk("none", JsonParse(t))
                ELSE IF blocks # <<>> /\ Head(blocks) # <<>>
                  THEN IF JsonParse(Head(blocks)) # "invalid"
                         THEN ParseOk("code_block", JsonParse(Head(blocks)))
                         ELSE failed("JSON.parse error")
                ELSE IF opening # {} /\ closing # {} /\ Min(opening) <= Max(closing)
                  THEN IF JsonParse(SubSeq(t, Min(opening), Max(closing))) # "invalid"
                         THEN ParseOk("braces", JsonParse(SubSeq(t, Min(opening), Max(closing))))
                         ELSE failed("JSON.parse error")
                ELSE failed("No JSON pattern found in the response")
    IN
    LET nonParseVars == <<retryVars, cmapVars, extVars, batchVars, normVars, jobVars, xmlVars, critVars>>
    IN
    /\ ppc = "call"
    /\ pResult' = IF pVersion = "lib" THEN ParseJSONBasic(pText) ELSE ParseJSON(pText)
    /\ ppc' = "returned"
    /\ UNCHANGED <<pVersion, pText>>
    /\ UNCHANGED nonParseVars


----------------------------------------------------------------------------
(***************************************************************************)
(* extractDataFromUrl(company): one call, for one company.                 *)
(***************************************************************************)
\* URLs, by what validatePdfUrl and validateWebsiteUrl look at.
UrlMissing == [present |-> FALSE, pdf |-> FALSE, http |-> FALSE]
Urls ==
    LET UrlOther == [present |-> TRUE, pdf |-> FALSE, http |-> FALSE]
    IN
    LET UrlWebsite == [present |-> TRUE, pdf |-> FALSE, http |-> TRUE]
    IN
    LET UrlPdf == [present |-> TRUE, pdf |-> TRUE, http |-> TRUE]
    IN  {UrlMissing, UrlPdf, UrlWebsite, UrlOther}

\* validatePdfUrl(url): ends with .pdf or contains a PDF indicator
ValidatePdfUrl(url) == url.present /\ url.pdf

\* determineUrlType(url)
DetermineUrlType(url) ==
    LET \* validateWebsiteUrl(url0)
        ValidateWebsiteUrl(url0) == url0.present /\ ~ValidatePdfUrl(url0) /\ url0.http
    IN
    IF ValidatePdfUrl(url) THEN "pdf"
    ELSE IF ValidateWebsiteUrl(url) THEN "website"
    ELSE "unknown"

\* industrySpecificPrompt || (customPrompt &&
\*     customPrompt.includes('<sustainability_analysis>'))
UsesXmlBranch(c, isp) == isp \/ c.customPrompt = "xml"

Recovered(data, tried) == [success |-> TRUE, data |-> data, tried |-> tried]
NotRecovered(tried) == [success |-> FALSE, data |-> "none", tried |-> tried]

\* The parsing of extractDataFromUrl (claude-extractor.js:282-563). The XML
\* branch maps whatever sections it finds, defaults for the others, and sets
\* parseSuccess before its last statement throws into its own catch.
Recover(t, c, isp) ==
    IF UsesXmlBranch(c, isp) THEN Recovered("M", <<"xml">>)
    ELSE IF DirectParse(t) # "invalid"
      THEN Recovered(DirectParse(t), <<"direct">>)
    ELSE IF isp THEN NotRecovered(<<"direct">>)
    ELSE IF CodeBlockParse(t) # "invalid"
      THEN Recovered(CodeBlockParse(t), <<"direct", "code_block">>)
    ELSE IF InlineObjectParse(t) # "invalid"
      THEN Recovered(InlineObjectParse(t), <<"direct", "code_block", "object_scan">>)
    ELSE IF ParseJSON(t).success
      THEN Recovered(ParseJSON(t).data,
                     <<"direct", "code_block", "object_scan", "shared_parser">>)
    ELSE NotRecovered(<<"direct", "code_block", "object_scan", "shared_parser">>)

NoResult == [status |-> "none", error |-> FALSE, fallbackData |-> FALSE,
             extractedData |-> FALSE]
Returned(status, error, fallback, data) ==
    [status |-> status, error |-> error, fallbackData |-> fallback,
     extractedData |-> data]

StatusRow(status, message) == [status |-> status, message |-> message]

IdleExt ==
    /\ company = [url |-> UrlMissing, industry |-> "", shouldUpdate |-> "undefined",
                  customPrompt |-> "none"]
    /\ epc = "idle"
    /\ extractedWebContent = "null"
    /\ industrySpecificPrompt = FALSE
    /\ promptUsed = "none"
    /\ respKind = "none"
    /\ responseText = <<>>
    /\ parseSuccess = FALSE
    /\ extractedJson = "none"
    /\ strategiesRun = <<>>
    /\ rawStore = {}
    /\ recordStore = {}
    /\ statusStore = "none"
    /\ statusWrites = <<>>
    /\ result = NoResult

\* persistence.updateProcessingStatus(companyId, 'extraction', status, message)
UpdateProcessingStatus(status, message) ==
    /\ statusStore' = status
    /\ statusWrites' = Append(statusWrites, StatusRow(status, message))

\* A write that never reaches the file.
WriteFileLost(file, content) == file

\* fs.writeFile(path, content): the file holds content
WriteFile(file, content) == {content}

\* if (!url) return {...company, status: 'extraction_skipped', ...}
ExtSkipNoUrl ==
    /\ epc = "start"
    /\ ~company.url.present
    /\ result' = Returned("extraction_skipped", FALSE, FALSE, FALSE)
    /\ epc' = "returned"
    /\ UNCHANGED <<company, extractedWebContent, industrySpecificPrompt, promptUsed, respKind, responseText,
                   parseSuccess, extractedJson, strategiesRun, rawStore, recordStore,
                   statusStore, statusWrites>>
    /\ UNCHANGED nonExtVars

\* if (urlType === 'unknown') { updateProcessingStatus(...); return ... }
ExtSkipUnknown ==
    /\ epc = "start"
    /\ company.url.present
    /\ DetermineUrlType(company.url) = "unknown"
    /\ UpdateProcessingStatus("extraction_skipped",
                              "URL does not appear to be a valid PDF or website")
    /\ result' = Returned("extraction_skipped", FALSE, FALSE, FALSE)
    /\ epc' = "returned"
    /\ UNCHANGED <<company, extractedWebContent, industrySpecificPrompt, promptUsed, respKind, responseText,
                   parseSuccess, extractedJson, strategiesRun, rawStore, recordStore>>
    /\ UNCHANGED nonExtVars

\* if (shouldUpdate === false) return {...company, status: 'skipped', ...}
ExtSkipFlag ==
    /\ epc = "start"
    /\ company.url.present
    /\ DetermineUrlType(company.url) # "unknown"
    /\ company.shouldUpdate = "false"
    /\ result' = Returned("skipped", FALSE, FALSE, FALSE)
    /\ epc' = "returned"
    /\ UNCHANGED <<company, extractedWebContent, industrySpecificPrompt, promptUsed, respKind, responseText,
                   parseSuccess, extractedJson, strategiesRun, rawStore, recordStore,
                   statusStore, statusWrites>>
    /\ UNCHANGED nonExtVars

\* Into the try block: criteria, system prompt; a website is fetched first
ExtBegin ==
    /\ epc = "start"
    /\ company.url.present
    /\ DetermineUrlType(company.url) # "unknown"
    /\ company.shouldUpdate # "false"
    /\ epc' = IF DetermineUrlType(company.url) = "pdf" THEN "prompt" ELSE "web"
    /\ UNCHANGED <<company, extractedWebContent, industrySpecificPrompt, promptUsed, respKind, responseText,
                   parseSuccess, extractedJson, strategiesRun, rawStore, recordStore,
                   statusStore, statusWrites, result>>
    /\ UNCHANGED nonExtVars

\* websiteExtractor.extractWebsiteContent(url) resolves
ExtWebOk ==
    /\ epc = "web"
    /\ epc' = "prompt"
    /\ extractedWebContent' = "content"
    /\ UNCHANGED <<company, industrySpecificPrompt, promptUsed, respKind, responseText,
                   parseSuccess, extractedJson, strategiesRun, rawStore, recordStore,
                   statusStore, statusWrites, result>>
    /\ UNCHANGED nonExtVars

\* A failed website fetch that goes on to the prompt with nothing to send.
ExtWebFailsGoesOn ==
    /\ epc = "web"
    /\ epc' = "prompt"
    /\ UNCHANGED <<company, extractedWebContent, industrySpecificPrompt, promptUsed, respKind,
                   responseText, parseSuccess, extractedJson, strategiesRun, rawStore,
                   recordStore, statusStore, statusWrites, result>>
    /\ UNCHANGED nonExtVars

\* websiteExtractor.extractWebsiteContent(url) rejects
ExtWebFails ==
    /\ epc = "web"
    /\ UpdateProcessingStatus("extraction_failed", "Website content extraction failed")
    /\ result' = Returned("extraction_failed", TRUE, FALSE, FALSE)
    /\ epc' = "returned"
    /\ UNCHANGED <<company, extractedWebContent, industrySpecificPrompt, promptUsed, respKind, responseText,
                   parseSuccess, extractedJson, strategiesRun, rawStore, recordStore>>
    /\ UNCHANGED nonExtVars

\* getIndustryPrompt(normalizedIndustry, url), then the choice of apiRequest.
\* readable: can the prompt file of the industry be read
ExtSelectPrompt ==
    LET \* custom > industry-specific > standard
        SelectPrompt(c, isp) ==
            LET \* customPrompt && customPrompt.trim()
                CustomPromptGiven(c0) == c0.customPrompt \in {"plain", "xml"}
            IN
            IF CustomPromptGiven(c) THEN "custom"
            ELSE IF isp THEN "industry"
            ELSE "standard"
    IN
    LET \* industryPromptPaths of industry-prompts.js
        HasIndustryPromptPath(industry) == industry = "construction"
    IN
    /\ epc = "prompt"
    /\ \E readable \in BOOLEAN :
         /\ industrySpecificPrompt' = (HasIndustryPromptPath(company.industry) /\ readable)
         /\ promptUsed' = SelectPrompt(company, industrySpecificPrompt')
    /\ epc' = "call"
    /\ UNCHANGED <<company, extractedWebContent, respKind, responseText, parseSuccess,
                   extractedJson,
                   strategiesRun, rawStore, recordStore, statusStore, statusWrites,
                   result>>
    /\ UNCHANGED nonExtVars

\* retryWithBackoff(...) resolves and response.content[0].text is a string
ExtCallReturns ==
    LET Texts == UNION {[1..n -> Tokens] : n \in 0..MaxTextLen}
    IN
    /\ epc = "call"
    /\ \E t \in Texts : responseText' = t
    /\ respKind' = "text"
    /\ epc' = "save"
    /\ UNCHANGED <<company, extractedWebContent, industrySpecificPrompt, promptUsed, parseSuccess,
                   extractedJson, strategiesRun, rawStore, recordStore, statusStore,
                   statusWrites, result>>
    /\ UNCHANGED nonExtVars

\* retryWithBackoff(...) resolves with a response that has no text block:
\* reading it, or writing undefined to the file, throws
ExtCallNoText ==
    /\ epc = "call"
    /\ respKind' = "no_text"
    /\ epc' = "catch"
    /\ UNCHANGED <<company, extractedWebContent, industrySpecificPrompt, promptUsed, responseText,
                   parseSuccess, extractedJson, strategiesRun, rawStore, recordStore,
                   statusStore, statusWrites, result>>
    /\ UNCHANGED nonExtVars

\* retryWithBackoff(...) rejects
ExtCallThrows ==
    /\ epc = "call"
    /\ respKind' = "thrown"
    /\ epc' = "catch"
    /\ UNCHANGED <<company, extractedWebContent, industrySpecificPrompt, promptUsed, responseText,
                   parseSuccess, extractedJson, strategiesRun, rawStore, recordStore,
                   statusStore, statusWrites, result>>
    /\ UNCHANGED nonExtVars

\* fs.writeFile(<companyId>_raw_response.txt, responseText)
ExtSaveRaw ==
    /\ epc = "save"
    /\ rawStore' = WriteFile(rawStore, responseText)
    /\ epc' = "parse"
    /\ UNCHANGED <<company, extractedWebContent, industrySpecificPrompt, promptUsed, respKind, responseText,
                   parseSuccess, extractedJson, strategiesRun, recordStore, statusStore,
                   statusWrites, result>>
    /\ UNCHANGED nonExtVars

\* The XML branch and strategies 1 to 4
ExtParse ==
    /\ epc = "parse"
    /\ LET r == Recover(responseText, company, industrySpecificPrompt) IN
         /\ parseSuccess' = r.success
         /\ extractedJson' = r.data
         /\ strategiesRun' = r.tried
    /\ epc' = "outcome"
    /\ UNCHANGED <<company, extractedWebContent, industrySpecificPrompt, promptUsed, respKind, responseText,
                   rawStore, recordStore, statusStore, statusWrites, result>>
    /\ UNCHANGED nonExtVars

\* if (parseSuccess) { ... write <companyId>_extracted.json; status complete }
ExtComplete ==
    /\ epc = "outcome"
    /\ parseSuccess
    /\ recordStore' = WriteFile(recordStore, extractedJson)
    /\ UpdateProcessingStatus("extraction_complete", "")
    /\ result' = Returned("extraction_complete", FALSE, FALSE, TRUE)
    /\ epc' = "returned"
    /\ UNCHANGED <<company, extractedWebContent, industrySpecificPrompt, promptUsed, respKind, responseText,
                   parseSuccess, extractedJson, strategiesRun, rawStore>>
    /\ UNCHANGED nonExtVars

\* else { fallbackData; status failed; return {..., fallbackData, error} }
ExtFailed ==
    /\ epc = "outcome"
    /\ ~parseSuccess
    /\ UpdateProcessingStatus("extraction_failed",
                              "Failed to parse JSON from Claude response")
    /\ result' = Returned("extraction_failed", TRUE, TRUE, FALSE)
    /\ epc' = "returned"
    /\ UNCHANGED <<company, extractedWebContent, industrySpecificPrompt, promptUsed, respKind, responseText,
                   parseSuccess, extractedJson, strategiesRun, rawStore, recordStore>>
    /\ UNCHANGED nonExtVars

\* catch (error) { handleError; status failed with error.message; return }
ExtCatch ==
    /\ epc = "catch"
    /\ UpdateProcessingStatus("extraction_failed", "error.message")
    /\ result' = Returned("extraction_failed", TRUE, FALSE, FALSE)
    /\ epc' = "returned"
    /\ UNCHANGED <<company, extractedWebContent, industrySpecificPrompt, promptUsed, respKind, responseText,
                   parseSuccess, extractedJson, strategiesRun, rawStore, recordStore>>
    /\ UNCHANGED nonExtVars

NextExt ==
    \/ ExtSkipNoUrl
    \/ ExtSkipUnknown
    \/ ExtSkipFlag
    \/ ExtBegin
    \/ ExtWebOk
    \/ ExtWebFails
    \/ ExtSelectPrompt
    \/ ExtCallReturns
    \/ ExtCallNoText
    \/ ExtCallThrows
    \/ ExtSaveRaw
    \/ ExtParse
    \/ ExtComplete
    \/ ExtFailed
    \/ ExtCatch

----------------------------------------------------------------------------
(***************************************************************************)
(* createBatchExtractionRequest(companies), and processBatchResults(batchId) *)
(* on the batch it created once that batch has ended. The batch API is     *)
(* taken to be available (isBatchAPIAvailable).                            *)
(***************************************************************************)
Members == DOMAIN members

RECURSIVE IdsUpTo(_)
IdsUpTo(n) == IF n = 0 THEN <<>> ELSE Append(IdsUpTo(n - 1), n)

NoBatch == [status |-> "none", companyIds |-> <<>>]

ResultErrors == {"errored", "expired", "canceled"}

\* A batch that takes every URL of a known type.
IsBatchEligibleAnyKnown(urlType) == urlType # "unknown"

\* if (urlType === 'pdf') validCompanies.push(company)
IsBatchEligible(urlType) == urlType = "pdf"

\* The message of the status written for an excluded company
ExclusionReason(urlType) ==
    IF urlType = "unknown" THEN "URL does not appear to be a valid PDF or website"
    ELSE "Websites not supported in batch mode"

IdleBatch ==
    /\ members = <<>>
    /\ bpc = "idle"
    /\ vIdx = 0
    /\ validCompanies = <<>>
    /\ invalidCompanies = <<>>
    /\ batchRequests = <<>>
    /\ submitted = <<>>
    /\ batchInfo = NoBatch
    /\ bStatus = <<>>
    /\ rIdx = 0
    /\ bResult = <<>>
    /\ bUpstream = <<>>
    /\ bError = <<>>
    /\ bText = <<>>
    /\ bRaw = <<>>
    /\ bRecord = <<>>
    /\ bTried = <<>>

\* One iteration of: for (const company of companies) { determineUrlType ... }
BatchValidate ==
    /\ bpc = "validate"
    /\ vIdx <= Len(members)
    /\ LET urlType == DetermineUrlType(members[vIdx]) IN
         IF urlType # "unknown" /\ IsBatchEligible(urlType)
           THEN /\ validCompanies' = Append(validCompanies, vIdx)
                /\ UNCHANGED <<invalidCompanies, bStatus>>
           ELSE /\ bStatus' = [bStatus EXCEPT
                      ![vIdx] = StatusRow("extraction_skipped", ExclusionReason(urlType))]
                /\ invalidCompanies' = Append(invalidCompanies,
                      [id |-> vIdx, message |-> ExclusionReason(urlType)])
                /\ UNCHANGED validCompanies
    /\ vIdx' = vIdx + 1
    /\ UNCHANGED <<members, bpc, batchRequests, submitted, batchInfo, rIdx, bResult,
                   bText, bRaw, bRecord, bTried>>
    /\ UNCHANGED <<bUpstream, bError>>
    /\ UNCHANGED nonBatchVars

\* const batchRequests = await Promise.all(validCompanies.map(...))
BatchBuildRequests ==
    /\ bpc = "validate"
    /\ vIdx > Len(members)
    /\ batchRequests' = validCompanies
    /\ bpc' = "mark"
    /\ UNCHANGED <<members, vIdx, validCompanies, invalidCompanies, submitted, batchInfo,
                   bStatus, rIdx, bResult, bText, bRaw, bRecord, bTried>>
    /\ UNCHANGED <<bUpstream, bError>>
    /\ UNCHANGED nonBatchVars

\* for (const company of companies) updateProcessingStatus(...in_progress...)
BatchMarkInProgress ==
    /\ bpc = "mark"
    /\ bStatus' = [m \in Members |->
                     StatusRow("extraction_in_progress", "Added to batch processing queue")]
    /\ bpc' = "create"
    /\ UNCHANGED <<members, vIdx, validCompanies, invalidCompanies, batchRequests,
                   submitted, batchInfo, rIdx, bResult, bText, bRaw, bRecord, bTried>>
    /\ UNCHANGED <<bUpstream, bError>>
    /\ UNCHANGED nonBatchVars

\* batches.create({requests: batchRequests}) resolves; storeBatchInfo; return
BatchCreateOk ==
    /\ bpc = "create"
    /\ submitted' = Append(submitted, batchRequests)
    /\ batchInfo' = [status |-> "in_progress", companyIds |-> IdsUpTo(Len(members))]
    /\ bpc' = "created"
    /\ UNCHANGED <<members, vIdx, validCompanies, invalidCompanies, batchRequests,
                   bStatus, rIdx, bResult, bText, bRaw, bRecord, bTried>>
    /\ UNCHANGED <<bUpstream, bError>>
    /\ UNCHANGED nonBatchVars

\* batches.create(...) rejects: every company is marked failed; throw error
BatchCreateFails ==
    /\ bpc = "create"
    /\ submitted' = Append(submitted, batchRequests)
    /\ bStatus' = [m \in Members |->
                     StatusRow("extraction_failed", "Failed to create batch: ")]
    /\ bpc' = "threw"
    /\ UNCHANGED <<members, vIdx, validCompanies, invalidCompanies, batchRequests,
                   batchInfo, rIdx, bResult, bText, bRaw, bRecord, bTried>>
    /\ UNCHANGED <<bUpstream, bError>>
    /\ UNCHANGED nonBatchVars

\* The company of the result the loop is at
CurrentResult == submitted[1][rIdx]

\* processBatchResults(batchId) finds the batch ended and loads its companies
BatchEnded ==
    /\ bpc = "created"
    /\ rIdx' = 1
    /\ bpc' = "results"
    /\ UNCHANGED <<members, vIdx, validCompanies, invalidCompanies, batchRequests,
                   submitted, batchInfo, bStatus, bResult, bText, bRaw, bRecord, bTried>>
    /\ UNCHANGED <<bUpstream, bError>>
    /\ UNCHANGED nonBatchVars

\* case 'succeeded': responseText; fs.writeFile(<companyId>_raw_response.txt)
BatchResultSucceeded ==
    LET \* The response texts of succeeded results
        BatchTexts ==
            {<<>>, <<"J">>, <<"w">>, <<"{", "p">>, <<"F", "J", "F">>, <<"X", "w", "Y">>,
             <<"Y", "X">>, <<"D">>, <<"w", "D">>}
    IN
    /\ bpc = "results"
    /\ rIdx <= Len(submitted[1])
    /\ \E t \in BatchTexts :
         /\ bText' = [bText EXCEPT ![CurrentResult] = t]
         /\ bRaw' = [bRaw EXCEPT ![CurrentResult] = WriteFile(bRaw[CurrentResult], t)]
    /\ bResult' = [bResult EXCEPT ![CurrentResult] = "succeeded"]
    /\ bpc' = "parse"
    /\ UNCHANGED <<members, vIdx, validCompanies, invalidCompanies, batchRequests,
                   submitted, batchInfo, bStatus, rIdx, bRecord, bTried>>
    /\ UNCHANGED <<bUpstream, bError>>
    /\ UNCHANGED nonBatchVars

\* case 'succeeded' of a result whose message.content is empty: reading
\* content[0].text throws inside the for await; the catch rethrows, and the
\* outer catch sets the batch to 'error' and rethrows
BatchResultNoText ==
    /\ bpc = "results"
    /\ rIdx <= Len(submitted[1])
    /\ bResult' = [bResult EXCEPT ![CurrentResult] = "succeeded"]
    /\ batchInfo' = [batchInfo EXCEPT !.status = "error"]
    /\ bpc' = "results_threw"
    /\ UNCHANGED <<members, vIdx, validCompanies, invalidCompanies, batchRequests,
                   submitted, bStatus, rIdx, bText, bRaw, bRecord, bTried>>
    /\ UNCHANGED <<bUpstream, bError>>
    /\ UNCHANGED nonBatchVars

\* The XML check, parseJSON, and the branch on parseResult.success
BatchResultParse ==
    LET \* The parsing of a succeeded result (part_003:334-463)
        BatchRecover(t) ==
            LET \* responseText.includes('<sustainability_analysis>') &&
                \*     responseText.includes('</sustainability_analysis>')
                HasXmlStructure(t0) ==
                    (\E i \in 1..Len(t0) : t0[i] = "X") /\ (\E i \in 1..Len(t0) : t0[i] = "Y")
            IN
            LET \* responseText.match(/<sustainability_analysis>[\s\S]*?<\/sustainability_analysis>/g)
                XmlMatch(t0) == \E i, j \in 1..Len(t0) : i < j /\ t0[i] = "X" /\ t0[j] = "Y"
            IN
            IF HasXmlStructure(t) /\ XmlMatch(t) THEN Recovered("M", <<"xml">>)
            ELSE IF ParseJSON(t).success
              THEN Recovered(ParseJSON(t).data,
                             IF HasXmlStructure(t) THEN <<"xml", "shared_parser">>
                                                   ELSE <<"shared_parser">>)
            ELSE NotRecovered(IF HasXmlStructure(t) THEN <<"xml", "shared_parser">>
                                                    ELSE <<"shared_parser">>)
    IN
    /\ bpc = "parse"
    /\ LET r == BatchRecover(bText[CurrentResult]) IN
         /\ bTried' = [bTried EXCEPT ![CurrentResult] = r.tried]
         /\ IF r.success
              THEN /\ bRecord' = [bRecord EXCEPT
                         ![CurrentResult] = WriteFile(bRecord[CurrentResult], r.data)]
                   /\ bStatus' = [bStatus EXCEPT
                         ![CurrentResult] = StatusRow("extraction_complete", "")]
              ELSE /\ bRecord' = bRecord
                   /\ bStatus' = [bStatus EXCEPT
                         ![CurrentResult] =
                             StatusRow("extraction_failed", "JSON parsing error: ")]
    /\ rIdx' = rIdx + 1
    /\ bpc' = "results"
    /\ UNCHANGED <<members, vIdx, validCompanies, invalidCompanies, batchRequests,
                   submitted, batchInfo, bResult, bText, bRaw>>
    /\ UNCHANGED <<bUpstream, bError>>
    /\ UNCHANGED nonBatchVars

\* case 'errored', 'expired', 'canceled'
BatchResultNotSucceeded ==
    LET \* The error field of the result pushed for a result that did not succeed
        ResultError(kind, message) ==
            CASE kind = "errored" -> message
              [] kind = "expired" -> "Batch request expired after 24 hours"
              [] kind = "canceled" -> "Batch request was canceled"
    IN
    LET \* The message of the status written for a result that did not succeed
        ResultErrorMessage(kind, message) ==
            LET \* `Batch processing error: ${result.result.error.message0}`
                BatchProcessingError(message0) ==
                    CASE message0 = "Overloaded" -> "Batch processing error: Overloaded"
                      [] message0 = "Invalid request" -> "Batch processing error: Invalid request"
            IN
            CASE kind = "errored" -> BatchProcessingError(message)
              [] kind = "expired" -> "Batch request expired after 24 hours"
              [] kind = "canceled" -> "Batch request was canceled"
    IN
    LET UpstreamMessages(kind) ==
            LET \* result.result.error.message of an errored result; an expired or canceled
                \* result has no error
                ErrorMessages == {"Overloaded", "Invalid request"}
            IN  IF kind = "errored" THEN ErrorMessages ELSE {"none"}
    IN
    /\ bpc = "results"
    /\ rIdx <= Len(submitted[1])
    /\ \E kind \in ResultErrors : \E message \in UpstreamMessages(kind) :
         /\ bResult' = [bResult EXCEPT ![CurrentResult] = kind]
         /\ bUpstream' = [bUpstream EXCEPT ![CurrentResult] = message]
         /\ bStatus' = [bStatus EXCEPT
               ![CurrentResult] = StatusRow("extraction_failed",
                                            ResultErrorMessage(kind, message))]
         /\ bError' = [bError EXCEPT ![CurrentResult] = ResultError(kind, message)]
    /\ rIdx' = rIdx + 1
    /\ UNCHANGED <<members, bpc, vIdx, validCompanies, invalidCompanies, batchRequests,
                   submitted, batchInfo, bText, bRaw, bRecord, bTried>>
    /\ UNCHANGED nonBatchVars

\* The stream is over: updateBatchStatus(batchId, 'completed')
BatchResultsDone ==
    /\ bpc = "results"
    /\ rIdx > Len(submitted[1])
    /\ batchInfo' = [batchInfo EXCEPT !.status = "completed"]
    /\ bpc' = "completed"
    /\ UNCHANGED <<members, vIdx, validCompanies, invalidCompanies, batchRequests,
                   submitted, bStatus, rIdx, bResult, bText, bRaw, bRecord, bTried>>
    /\ UNCHANGED <<bUpstream, bError>>
    /\ UNCHANGED nonBatchVars

NextBatch ==
    \/ BatchValidate
    \/ BatchBuildRequests
    \/ BatchMarkInProgress
    \/ BatchCreateOk
    \/ BatchCreateFails
    \/ BatchEnded
    \/ BatchResultSucceeded
    \/ BatchResultNoText
    \/ BatchResultParse
    \/ BatchResultNotSucceeded
    \/ BatchResultsDone

----------------------------------------------------------------------------
(***************************************************************************)
(* The success path: what the code does to a parsed record before it saves *)
(* it. Three copies of it exist: extractDataFromUrl as it is               *)
(* (claude-extractor.js:571-621), its earlier version, which also          *)
(* normalises companyDetails and carbonFootprint (part_000:337-459), and  *)
(* processBatchResults (part_003:465-508).                                 *)
(***************************************************************************)

\* What a record holds under a criterion id: no key; a falsy value; {} ;
\* {actions: []}; {actions: [...]} with an action; a non-empty string
CriterionValues ==
    {"absent", "falsy", "no_actions_key", "empty_actions", "actions", "string"}

\* JSON values under a key of carbonFootprint. A string is body, followed by
\* " (year)" when year is not "".
Absent == [kind |-> "absent", body |-> "", year |-> ""]
Str(body, year) == [kind |-> "string", body |-> body, year |-> year]

\* JavaScript truthiness of such a value
Truthy(v) ==
    \/ v.kind = "number"
    \/ v.kind = "string" /\ (v.body # "" \/ v.year # "")

Scopes == {"scope1", "scope2", "scope3", "total"}
MatrixYears == {"2022", "2023", "2024"}

\* Keys of carbonFootprint: scope_year; year "" is the legacy key (scope1, ...)
CfKey(scope, year) == [scope |-> scope, year |-> year]
MatrixKeys == [scope : Scopes, year : MatrixYears]
AllCfKeys == [scope : Scopes, year : MatrixYears \cup {"", "2021"}]

CfObject(fields) == [kind |-> "object", fields |-> fields]
NoFields == [k \in AllCfKeys |-> Absent]

\* The object the code puts in place of a missing carbonFootprint, and the one
\* the XML mapping builds
EmptyMatrix == [k \in AllCfKeys |-> IF k \in MatrixKeys THEN Str("", "") ELSE Absent]

InputCarbonFootprints ==
    LET \* The keys and values a parsed carbonFootprint is drawn from
        InputCfKeys ==
            {CfKey("scope1", ""), CfKey("scope2", ""), CfKey("scope1", "2023"),
             CfKey("scope1", "2021")}
    IN
    LET CfObjectsOver(K) ==
            LET InputCfValues ==
                    LET Num == [kind |-> "number", body |-> "15", year |-> ""]
                    IN
                    LET Null == [kind |-> "null", body |-> "", year |-> ""]
                    IN
                    {Null, Num, Str("", ""), Str("1.5 t", ""), Str("1.5 t", "2024"),
                     Str("1.5 t", "2021")}
            IN
            {CfObject([k \in AllCfKeys |-> IF k \in K THEN g[k] ELSE Absent]) :
                g \in [K -> InputCfValues]}
    IN
    {[kind |-> "absent", fields |-> NoFields],
     [kind |-> "falsy", fields |-> NoFields],
     [kind |-> "string", fields |-> NoFields],
     CfObject(EmptyMatrix)}
    \cup UNION {CfObjectsOver(K) :
                   K \in {K0 \in SUBSET InputCfKeys : Cardinality(K0) <= MaxCfKeys}}

\* extractYear(extractedData.carbonFootprint.scope1) || '2023'
MigrationYear(v) == IF v.year # "" THEN v.year ELSE "2023"

\* value?.replace(/\s*\(\d{4}\)/, '') || ''
StripYear(v) == IF v.kind = "string" THEN Str(v.body, "") ELSE Str("", "")

\* if (carbonFootprint.scope1 && !carbonFootprint.scope1_2023)
NeedsMigration(f) ==
    Truthy(f[CfKey("scope1", "")]) /\ ~Truthy(f[CfKey("scope1", "2023")])

\* part_000:374-424
NormalizeCarbonFootprint(cf) ==
    LET \* Move the legacy values to the fields of the year; delete the legacy fields
        MigrateLegacy(f) ==
            IF ~NeedsMigration(f) THEN f
            ELSE [k \in AllCfKeys |->
                    IF k.year = MigrationYear(f[CfKey("scope1", "")])
                      THEN StripYear(f[CfKey(k.scope, "")])
                    ELSE IF k.year = "" THEN Absent
                    ELSE f[k]]
    IN
    LET \* if (!carbonFootprint[key]) carbonFootprint[key] = '' for the twelve keys
        FillMatrix(f) ==
            [k \in AllCfKeys |-> IF k \in MatrixKeys /\ ~Truthy(f[k]) THEN Str("", "") ELSE f[k]]
    IN
    IF cf.kind \in {"absent", "falsy"} THEN CfObject(EmptyMatrix)
    ELSE CfObject(FillMatrix(MigrateLegacy(cf.fields)))

\* A property cannot be set on a string (the module is strict code)
CarbonFootprintThrows(cf) ==
    LET \* value.match or value.replace of a number is not a function
        MigrationThrows(f) ==
            NeedsMigration(f) /\ \E sc \in Scopes : f[CfKey(sc, "")].kind = "number"
    IN
    \/ cf.kind = "string"
    \/ cf.kind = "object" /\ MigrationThrows(cf.fields)

\* extractedData.companyDetails: kind "absent" (missing or falsy), "string" (a
\* truthy primitive) or "object"; of an object, contactInfo likewise, and
\* contactInfo.website: "absent" (missing or falsy), "own" (from the response)
\* or "url" (the url of the company); rest: the other fields, "own" or
\* "defaults" (the empty strings of the default structure)
CompanyDetails(kind, contactInfo, website, rest) ==
    [kind |-> kind, contactInfo |-> contactInfo, website |-> website, rest |-> rest]
NoCompanyDetails == CompanyDetails("absent", "absent", "absent", "defaults")

\* A property cannot be set on a string
CompanyDetailsThrows(cd) ==
    \/ cd.kind = "string"
    \/ cd.kind = "object" /\ cd.contactInfo = "string"

\* part_000:346-372
NormalizeCompanyDetails(cd) ==
    IF cd.kind = "absent" THEN CompanyDetails("object", "object", "url", "defaults")
    ELSE CompanyDetails("object", "object",
                        IF cd.website = "absent" THEN "url" ELSE cd.website, cd.rest)

\* A placeholder added whether or not the criterion is there.
FillCriterionAlways(v) == IF v \in {"absent", "falsy"} THEN "actions" ELSE "duplicated"

\* if (!extractedData[criterion.id]) extractedData[criterion.id] = {actions: [...]}
FillCriterion(v) == IF v \in {"absent", "falsy"} THEN "actions" ELSE v

\* relevantCriteria.forEach(criterion => ...)
AddMissingCriteria(c) == [i \in DOMAIN c |-> FillCriterion(c[i])]

\* The normalization of the earlier extractDataFromUrl, as one function
NormalizeThrows(d) ==
    CompanyDetailsThrows(d.companyDetails) \/ CarbonFootprintThrows(d.carbonFootprint)
NormalizeRecord(d) ==
    [criteria |-> AddMissingCriteria(d.criteria),
     carbonFootprint |-> NormalizeCarbonFootprint(d.carbonFootprint),
     companyDetails |-> NormalizeCompanyDetails(d.companyDetails)]

IdleNorm ==
    /\ nVersion = "none"
    /\ relevantCriteria = 0
    /\ npc = "idle"
    /\ extractedData = [criteria |-> <<>>,
                        carbonFootprint |-> [kind |-> "absent", fields |-> NoFields],
                        companyDetails |-> NoCompanyDetails]
    /\ nStore = {}
    /\ nStatus = "none"

\* The earlier extractDataFromUrl: "If companyDetails is missing, add an empty
\* structure", else contactInfo and its website; a TypeError goes to the catch
NormCompanyDetails ==
    /\ npc = "parsed"
    /\ nVersion = "direct_earlier"
    /\ IF CompanyDetailsThrows(extractedData.companyDetails)
         THEN /\ npc' = "catch"
              /\ UNCHANGED extractedData
         ELSE /\ npc' = "carbon"
              /\ extractedData' = [extractedData EXCEPT
                     !.companyDetails = NormalizeCompanyDetails(extractedData.companyDetails)]
    /\ UNCHANGED <<nVersion, relevantCriteria, nStore, nStatus>>
    /\ UNCHANGED nonNormVars

\* The earlier extractDataFromUrl: "Ensure carbonFootprint has the expected
\* structure with years"
NormCarbon ==
    /\ npc = "carbon"
    /\ ~CarbonFootprintThrows(extractedData.carbonFootprint)
    /\ extractedData' = [extractedData EXCEPT
           !.carbonFootprint = NormalizeCarbonFootprint(extractedData.carbonFootprint)]
    /\ npc' = "criteria"
    /\ UNCHANGED <<nVersion, relevantCriteria, nStore, nStatus>>
    /\ UNCHANGED nonNormVars

\* The same, when it throws a TypeError into the catch of extractDataFromUrl
NormCarbonThrows ==
    /\ npc = "carbon"
    /\ CarbonFootprintThrows(extractedData.carbonFootprint)
    /\ npc' = "catch"
    /\ UNCHANGED <<nVersion, relevantCriteria, extractedData, nStore, nStatus>>
    /\ UNCHANGED nonNormVars

\* "If there are any missing criteria, add empty placeholders"
NormCriteria ==
    /\ \/ npc = "criteria"
       \/ npc = "parsed" /\ nVersion # "direct_earlier"
    /\ extractedData' = [extractedData EXCEPT
           !.criteria = AddMissingCriteria(extractedData.criteria)]
    /\ npc' = "save"
    /\ UNCHANGED <<nVersion, relevantCriteria, nStore, nStatus>>
    /\ UNCHANGED nonNormVars

\* fs.writeFile(<companyId>_extracted.json); status extraction_complete
NormSave ==
    /\ npc = "save"
    /\ nStore' = WriteFile(nStore, extractedData)
    /\ nStatus' = "extraction_complete"
    /\ npc' = "complete"
    /\ UNCHANGED <<nVersion, relevantCriteria, extractedData>>
    /\ UNCHANGED nonNormVars

\* catch (error) { ... status extraction_failed }
NormCatch ==
    /\ npc = "catch"
    /\ nStatus' = "extraction_failed"
    /\ npc' = "failed"
    /\ UNCHANGED <<nVersion, relevantCriteria, extractedData, nStore>>
    /\ UNCHANGED nonNormVars

NextNorm ==
    \/ NormCompanyDetails
    \/ NormCarbon
    \/ NormCarbonThrows
    \/ NormCriteria
    \/ NormSave
    \/ NormCatch

----------------------------------------------------------------------------
(***************************************************************************)
(* Batch jobs across runs. A run of index.js in batch mode submits the     *)
(* records its input list marks shouldUpdate (each URL a PDF here) and     *)
(* then calls checkAndProcessCompletedBatches; the poller of part_004      *)
(* calls checkAndProcessCompletedBatches alone; processBatchResults is     *)
(* also called on a batch id directly. The calls come one after another;   *)
(* a job ends at the API whenever it does.                                 *)
(***************************************************************************)
Batches == 1..MaxBatches
Records == 1..MaxRecords

IdleJob ==
    LET NoCall == [by |-> "none", batch |-> 0, retrieved |-> "none", returned |-> "none"]
    IN
    /\ jUpstream = [b \in Batches |-> "none"]
    /\ jRow = [b \in Batches |-> "none"]
    /\ jMembers = [b \in Batches |-> {}]
    /\ jStatus = [r \in Records |-> "none"]
    /\ jStored = {}
    /\ jStreamed = [b \in Batches |-> <<>>]
    /\ jpc = "idle"
    /\ jQueue = <<>>
    /\ jCalls = 0
    /\ jCall = NoCall

\* A processBatchResults that reads the result stream whatever was retrieved.
IsEndedAlways(processingStatus) == TRUE

\* if (batch.processing_status !== 'ended') return { status: 'in_progress', batch }
IsEnded(processingStatus) == processingStatus = "ended"

\* A getActiveBatches that selects every row.
GetActiveBatchesAnyStatus == {b \in Batches : jRow[b] # "none"}

\* SELECT * FROM batches WHERE status = 'in_progress'
GetActiveBatches == {b \in Batches : jRow[b] = "in_progress"}

\* main's submission loop, for an input list that fits one batch and marks
\* every record shouldUpdate: filterCompaniesToProcess looks at shouldUpdate
\* alone, createBatchExtractionRequest marks the companies in_progress and
\* creates the job; storeBatchInfo on success, every company failed when
\* batches.create rejects.
MainSubmitsBatch ==
    /\ jpc = "idle"
    /\ \E S \in {Records} :
         \/ \E b \in Batches :
              /\ jUpstream[b] = "none"
              /\ \A b0 \in Batches : b0 < b => jUpstream[b0] # "none"
              /\ jUpstream' = [jUpstream EXCEPT ![b] = "in_progress"]
              /\ jRow' = [jRow EXCEPT ![b] = "in_progress"]
              /\ jMembers' = [jMembers EXCEPT ![b] = S]
              /\ jStatus' = [r \in Records |->
                               IF r \in S THEN "extraction_in_progress" ELSE jStatus[r]]
         \/ /\ jStatus' = [r \in Records |->
                             IF r \in S THEN "extraction_failed" ELSE jStatus[r]]
            /\ UNCHANGED <<jUpstream, jRow, jMembers>>
    /\ UNCHANGED <<jStored, jStreamed, jpc, jQueue, jCalls, jCall>>
    /\ UNCHANGED nonJobVars

\* The job ends at the API.
UpstreamEnds ==
    /\ \E b \in Batches :
         /\ jUpstream[b] = "in_progress"
         /\ jUpstream' = [jUpstream EXCEPT ![b] = "ended"]
    /\ UNCHANGED <<jRow, jMembers, jStatus, jStored, jStreamed, jpc, jQueue, jCalls, jCall>>
    /\ UNCHANGED nonJobVars

\* processBatchResults(b): checkBatchStatus; the early return; the result
\* stream, each result giving its member a terminal status and a succeeded
\* one its record; 'completed' when the stream is over, 'error' and a throw
\* when checkBatchStatus or the stream throws (then only the results read
\* before it have been handled).
ProcessBatchResults(b, by) ==
    \E retrieved \in {"failed", jUpstream[b]} :
        IF retrieved = "failed"
          THEN /\ jRow' = [jRow EXCEPT ![b] = "error"]
               /\ jCall' = [by |-> by, batch |-> b, retrieved |-> retrieved,
                            returned |-> "threw"]
               /\ UNCHANGED <<jStatus, jStored, jStreamed>>
        ELSE IF ~IsEnded(retrieved)
          THEN /\ jCall' = [by |-> by, batch |-> b, retrieved |-> retrieved,
                            returned |-> "in_progress"]
               /\ UNCHANGED <<jRow, jStatus, jStored, jStreamed>>
        ELSE /\ jStreamed' = [jStreamed EXCEPT ![b] = Append(@, by)]
             /\ \E T \in SUBSET jMembers[b], threw \in BOOLEAN :
                  \E f \in [T -> {"extraction_complete", "extraction_failed"}] :
                    /\ ~threw => T = jMembers[b]
                    /\ jStatus' = [r \in Records |-> IF r \in T THEN f[r] ELSE jStatus[r]]
                    /\ jStored' = jStored \cup {r \in T : f[r] = "extraction_complete"}
                    /\ jRow' = [jRow EXCEPT ![b] = IF threw THEN "error" ELSE "completed"]
                    /\ jCall' = [by |-> by, batch |-> b, retrieved |-> retrieved,
                                 returned |-> IF threw THEN "threw" ELSE "completed"]

\* processBatchResults(batchId) called on the id of a batch that was created
ProcessBatchResultsCall ==
    /\ jpc = "idle"
    /\ jCalls < MaxCalls
    /\ \E b \in Batches :
         /\ jUpstream[b] # "none"
         /\ ProcessBatchResults(b, "direct")
    /\ jCalls' = jCalls + 1
    /\ UNCHANGED <<jUpstream, jMembers, jpc, jQueue>>
    /\ UNCHANGED nonJobVars

\* checkAndProcessCompletedBatches: const activeBatches = getActiveBatches()
PollStart ==
    LET RECURSIVE InOrder(_)
        InOrder(S) == IF S = {} THEN <<>> ELSE <<Min(S)>> \o InOrder(S \ {Min(S)})
    IN
    /\ jpc = "idle"
    /\ jQueue' = InOrder(GetActiveBatches)
    /\ jpc' = "poll"
    /\ UNCHANGED <<jUpstream, jRow, jMembers, jStatus, jStored, jStreamed, jCalls, jCall>>
    /\ UNCHANGED nonJobVars

\* One iteration of its loop: checkBatchStatus, processBatchResults when the
\* batch has ended; an error of either is caught and logged
PollBatch ==
    /\ jpc = "poll"
    /\ jQueue # <<>>
    /\ \E batchStatus \in {"failed", jUpstream[Head(jQueue)]} :
         IF batchStatus = "ended"
           THEN ProcessBatchResults(Head(jQueue), "poll")
           ELSE UNCHANGED <<jRow, jStatus, jStored, jStreamed, jCall>>
    /\ jQueue' = Tail(jQueue)
    /\ UNCHANGED <<jUpstream, jMembers, jpc, jCalls>>
    /\ UNCHANGED nonJobVars

\* return results
PollReturns ==
    /\ jpc = "poll"
    /\ jQueue = <<>>
    /\ jpc' = "idle"
    /\ UNCHANGED <<jUpstream, jRow, jMembers, jStatus, jStored, jStreamed, jQueue,
                   jCalls, jCall>>
    /\ UNCHANGED nonJobVars

NextJob ==
    \/ MainSubmitsBatch
    \/ UpstreamEnds
    \/ ProcessBatchResultsCall
    \/ PollStart
    \/ PollBatch
    \/ PollReturns

----------------------------------------------------------------------------
(***************************************************************************)
(* The XML branch: a response that holds one criteria<k>_actions_solutions *)
(* tag, or none of them, is mapped into mappedData. extractDataFromUrl     *)
(* (claude-extractor.js:331-396) and processBatchResults (part_003:348-402) *)
(* hold the same code. A text is a sequence of characters: '#', ' ' and    *)
(* "a" for any other character.                                            *)
(***************************************************************************)
\* The semantic slots, by the number of the criteria tag mapped to each
SlotNames ==
    <<"buildings", "energy_efficiency", "renewable_energies",
      "climate_neutral_operation", "materials", "occupational_safety_and_health",
      "carbon_footprint">>

\* mappedData, of an xmlContent whose criteria<field> tag holds content
\* (field 0: it holds none of the tags), built in the year year
MappedData(field, content, year) ==
    LET RECURSIVE TrimStart(_)
        TrimStart(t) == IF t # <<>> /\ Head(t) = " " THEN TrimStart(Tail(t)) ELSE t
        RECURSIVE TrimEnd(_)
        TrimEnd(t) ==
            IF t # <<>> /\ t[Len(t)] = " " THEN TrimEnd(SubSeq(t, 1, Len(t) - 1)) ELSE t
        \* String.prototype.trim
        Trim(t) == TrimEnd(TrimStart(t))
        \* const match = xmlContent.match(regex); return match ? match[1].trim() : ''
        ExtractXMLValue(k) == IF k = field THEN Trim(content) ELSE <<>>
        \* text.split('#')
        RECURSIVE Split(_)
        Split(t) ==
            LET hashes == {i \in 1..Len(t) : t[i] = "#"} IN
            IF hashes = {} THEN <<t>>
            ELSE <<SubSeq(t, 1, Min(hashes) - 1)>>
                     \o Split(SubSeq(t, Min(hashes) + 1, Len(t)))
        NotBlank(item) == Trim(item) # <<>>
        \* const processActions = (text) => ...
        ProcessActions(text) ==
            IF text = <<>> \/ Trim(text) = <<>>
              THEN << <<"#", " ", "No specific actions found">> >>
            ELSE LET kept == SelectSeq(Split(text), NotBlank)
                 IN  [i \in DOMAIN kept |-> <<"#", " ">> \o Trim(kept[i])]
    IN  [reportYear |-> year,
         slots |-> [k \in DOMAIN SlotNames |->
                      [slot |-> SlotNames[k],
                       actions |-> ProcessActions(ExtractXMLValue(k))]]]

IdleXml ==
    /\ xField = 0
    /\ xContent = <<>>
    /\ xYear = 0
    /\ xpc = "idle"
    /\ xData = [reportYear |-> 0, slots |-> <<>>]

\* const mappedData = {...}
XmlMaps ==
    /\ xpc = "matched"
    /\ xData' = MappedData(xField, xContent, xYear)
    /\ xpc' = "mapped"
    /\ UNCHANGED <<xField, xContent, xYear>>
    /\ UNCHANGED <<retryVars, cmapVars, extVars, batchVars, normVars, parseVars, jobVars, critVars>>

----------------------------------------------------------------------------
(***************************************************************************)
(* getIndustryCriteria(industry), for a criteria CSV that has been read.   *)
(* industrySimpleCriteria is a plain object: a key it does not own is      *)
(* looked up in Object.prototype.                                          *)
(***************************************************************************)
\* const defaultCriteria
DefaultCriteria ==
    <<"carbon_footprint", "energy_efficiency", "renewable_energies", "waste_management",
      "water_management", "diversity_inclusion", "social_responsibility">>

\* What a call resolves with: an array of criteria, or another value
CriteriaArray(ids) == [kind |-> "array", ids |-> ids]

\* getIndustryCriteria on the table of the loaded industries
GetIndustryCriteria(table, industry) ==
    LET \* industry ? industry.toLowerCase().trim() : ''
        cleanIndustry == IF industry = " Retail " THEN "retail" ELSE industry
        \* the criteria array loadCriteriaFromCsv stores under a key
        Criteria(key) ==
            CriteriaArray([i \in DOMAIN DefaultCriteria |-> <<key, i>>])
        \* industrySimpleCriteria[key]: own, inherited from Object.prototype, or undefined
        Inherited(key) == key \notin table /\ key \in {"constructor", "__proto__"}
        Truthy0(key) == key \in table \/ Inherited(key)
        Lookup(key) == IF key \in table THEN Criteria(key)
                       ELSE [kind |-> "inherited", ids |-> <<>>]
        \* key.toLowerCase().includes(cleanIndustry), for a key other than it
        Includes(key) ==
            \/ key = cleanIndustry
            \/ key = "technology" /\ cleanIndustry = "tech"
        partial == {key \in table : Includes(key)}
        \* parts[parts.length - 1] of cleanIndustry.split('_')
        industryPart ==
            CASE cleanIndustry = "11_telecommunication" -> "telecommunication"
              [] cleanIndustry = "x_constructor" -> "constructor"
              [] OTHER -> cleanIndustry
    IN  IF cleanIndustry # "" /\ Truthy0(cleanIndustry) THEN Lookup(cleanIndustry)
        ELSE IF cleanIndustry # "" /\ partial # {}
          THEN Criteria(CHOOSE key \in partial : TRUE)
        ELSE IF industryPart # cleanIndustry /\ Truthy0(industryPart)
          THEN Lookup(industryPart)
        ELSE CriteriaArray(DefaultCriteria)

IdleCrit ==
    /\ gTable = {}
    /\ gIndustry = ""
    /\ gpc = "idle"
    /\ gResult = CriteriaArray(<<>>)

\* return industrySimpleCriteria[...] or return defaultCriteria
CriteriaReturned ==
    /\ gpc = "call"
    /\ gResult' = GetIndustryCriteria(gTable, gIndustry)
    /\ gpc' = "returned"
    /\ UNCHANGED <<gTable, gIndustry>>
    /\ UNCHANGED <<retryVars, cmapVars, extVars, batchVars, normVars, parseVars, jobVars,
                   xmlVars>>

----------------------------------------------------------------------------
(***************************************************************************)
(* The specifications.                                                     *)
(***************************************************************************)
InitRetry ==
    LET StartRetry ==
            /\ maxRetries \in 0..MaxMaxRetries
            /\ rpc = "call"
            /\ retries = 0
            /\ delay = InitialDelay
            /\ calls = 0
            /\ sleeps = <<>>
            /\ curErr = NoError
            /\ thrown = NoError
    IN  StartRetry /\ IdleCMap /\ IdleExt /\ IdleBatch /\ IdleNorm /\ IdleParse /\ IdleJob /\ IdleXml /\ IdleCrit

SpecRetry == InitRetry /\ [][NextRetry]_vars

InitCMap ==
    LET StartCMap ==
            /\ items \in 0..MaxItems
            /\ concurrency \in 1..MaxConcurrency
            /\ cpc = "loop"
            /\ nextItem = 1
            /\ executing = {}
            /\ started = {}
            /\ settled = [i \in 1..items |-> "pending"]
            /\ raceSet = {}
            /\ results = <<>>
            /\ cReturn = <<>>
    IN  StartCMap /\ IdleRetry /\ IdleExt /\ IdleBatch /\ IdleNorm /\ IdleParse /\ IdleJob /\ IdleXml /\ IdleCrit

SpecCMap == InitCMap /\ [][NextCMap]_vars

InitExt ==
    LET StartExt ==
            LET Companies ==
                    LET Industries == {"", "construction", "retail"}
                    IN
                    LET \* customPrompt: absent, whitespace only, a plain prompt, or a prompt that
                        \* contains '<sustainability_analysis>'
                        CustomPrompts == {"none", "blank", "plain", "xml"}
                    IN
                    LET \* shouldUpdate as read from the input list
                        ShouldUpdateValues == {"true", "false", "undefined"}
                    IN
                    [url : Urls, industry : Industries, shouldUpdate : ShouldUpdateValues,
                     customPrompt : CustomPrompts]
            IN
            /\ company \in Companies
            /\ epc = "start"
            /\ extractedWebContent = "null"
            /\ industrySpecificPrompt = FALSE
            /\ promptUsed = "none"
            /\ respKind = "none"
            /\ responseText = <<>>
            /\ parseSuccess = FALSE
            /\ extractedJson = "none"
            /\ strategiesRun = <<>>
            /\ rawStore = {}
            /\ recordStore = {}
            /\ statusStore = "none"
            /\ statusWrites = <<>>
            /\ result = NoResult
    IN  StartExt /\ IdleRetry /\ IdleCMap /\ IdleBatch /\ IdleNorm /\ IdleParse /\ IdleJob /\ IdleXml /\ IdleCrit

SpecExtract == InitExt /\ [][NextExt]_vars

InitBatch ==
    LET StartBatch ==
            LET NoStatus == StatusRow("none", "")
            IN
            /\ members \in UNION {[1..n -> Urls] : n \in 1..MaxMembers}
            /\ bpc = "validate"
            /\ vIdx = 1
            /\ validCompanies = <<>>
            /\ invalidCompanies = <<>>
            /\ batchRequests = <<>>
            /\ submitted = <<>>
            /\ batchInfo = NoBatch
            /\ bStatus = [m \in Members |-> NoStatus]
            /\ rIdx = 0
            /\ bResult = [m \in Members |-> "none"]
            /\ bUpstream = [m \in Members |-> "none"]
            /\ bError = [m \in Members |-> "none"]
            /\ bText = [m \in Members |-> <<>>]
            /\ bRaw = [m \in Members |-> {}]
            /\ bRecord = [m \in Members |-> {}]
            /\ bTried = [m \in Members |-> <<>>]
    IN  StartBatch /\ IdleRetry /\ IdleCMap /\ IdleExt /\ IdleNorm /\ IdleParse /\ IdleJob /\ IdleXml /\ IdleCrit

SpecBatch == InitBatch /\ [][NextBatch]_vars

InitNorm ==
    LET StartNorm ==
            LET NormVersions == {"direct", "direct_earlier", "batch"}
            IN
            /\ nVersion \in NormVersions
            /\ relevantCriteria \in 1..MaxCriteria
            /\ npc = "parsed"
            /\ extractedData \in [criteria : [1..relevantCriteria -> CriterionValues],
                                  carbonFootprint : InputCarbonFootprints,
                                  companyDetails : {NoCompanyDetails}]
            /\ nStore = {}
            /\ nStatus = "none"
    IN  StartNorm /\ IdleRetry /\ IdleCMap /\ IdleExt /\ IdleBatch /\ IdleParse /\ IdleJob /\ IdleXml /\ IdleCrit

SpecNorm == InitNorm /\ [][NextNorm]_vars

InitNormalize ==
    LET \* The inputs of the earlier extractDataFromUrl alone, with every shape of
        \* companyDetails, for an industry of one criterion
        StartNormalize ==
            LET InputCompanyDetails ==
                    {NoCompanyDetails,
                     CompanyDetails("string", "absent", "absent", "defaults"),
                     CompanyDetails("object", "absent", "absent", "own"),
                     CompanyDetails("object", "string", "absent", "own"),
                     CompanyDetails("object", "object", "absent", "own"),
                     CompanyDetails("object", "object", "own", "own")}
            IN
            /\ nVersion = "direct_earlier"
            /\ relevantCriteria = 1
            /\ npc = "parsed"
            /\ extractedData \in [criteria : [1..relevantCriteria -> CriterionValues],
                                  carbonFootprint : InputCarbonFootprints,
                                  companyDetails : InputCompanyDetails]
            /\ nStore = {}
            /\ nStatus = "none"
    IN  StartNormalize /\ IdleRetry /\ IdleCMap /\ IdleExt /\ IdleBatch /\ IdleParse /\ IdleJob /\ IdleXml /\ IdleCrit

SpecNormalize == InitNormalize /\ [][NextNorm]_vars

InitParse ==
    LET StartParse ==
            LET ParseTexts == UNION {[1..n -> Tokens \cup {"W"}] : n \in 0..MaxTextLen}
            IN
            LET ParseVersions == {"part_001", "lib"}
            IN
            /\ pVersion \in ParseVersions
            /\ pText \in ParseTexts
            /\ ppc = "call"
            /\ pResult = NoParseResult
    IN
    StartParse /\ IdleRetry /\ IdleCMap /\ IdleExt /\ IdleBatch /\ IdleNorm /\ IdleJob /\ IdleXml /\ IdleCrit

SpecParse == InitParse /\ [][ParseReturns]_vars

\* A run of the pipeline in either mode: one direct extraction, or one batch
InitJob == IdleJob /\ IdleRetry /\ IdleCMap /\ IdleExt /\ IdleBatch /\ IdleNorm /\ IdleParse /\ IdleXml /\ IdleCrit

SpecJob == InitJob /\ [][NextJob]_vars

\* A response matched by the XML branch, in one of two years
InitXml ==
    /\ xField \in 0..Len(SlotNames)
    /\ xContent \in UNION {[1..n -> {"#", " ", "a"}] : n \in 0..MaxContentLen}
    /\ xField = 0 => xContent = <<>>
    /\ xYear \in {2025, 2026}
    /\ xpc = "matched"
    /\ xData = [reportYear |-> 0, slots |-> <<>>]
    /\ IdleRetry /\ IdleCMap /\ IdleExt /\ IdleBatch /\ IdleNorm /\ IdleParse /\ IdleJob
    /\ IdleCrit

SpecXml == InitXml /\ [][XmlMaps]_vars

\* A call with any tag, over any table of loaded industries
InitCrit ==
    /\ gTable \in SUBSET {"construction", "retail", "technology", "telecommunication"}
    /\ gIndustry \in {"", "construction", " Retail ", "tech", "11_telecommunication",
                      "mining", "constructor", "x_constructor"}
    /\ gpc = "call"
    /\ gResult = CriteriaArray(<<>>)
    /\ IdleRetry /\ IdleCMap /\ IdleExt /\ IdleBatch /\ IdleNorm /\ IdleParse /\ IdleJob
    /\ IdleXml

SpecCrit == InitCrit /\ [][CriteriaReturned]_vars

InitEitherMode == InitExt \/ InitBatch

NextEitherMode == NextExt \/ NextBatch

SpecEitherMode == InitEitherMode /\ [][NextEitherMode]_vars

----------------------------------------------------------------------------
\* C1: when every attempt fails with a retryable (rate-limit/overload) error,
\* retryWithBackoff invokes the operation exactly maxRetries+1 times before it
\* propagates the error. (Every attempt before the last one was retried, so was
\* retryable; the last one is the error thrown.)
C1_AttemptsBeforePropagate ==
    (rpc = "thrown" /\ IsOverloadedError(thrown)) => calls = maxRetries + 1

\* C2: an error whose type tag is authentication_error is never retried: the
\* operation is called once, nothing is slept, and that error is rethrown.
C2_AuthNeverRetried ==
    (curErr.type = "authentication_error" /\ curErr.id = 1)
        => /\ rpc # "sleep"
           /\ sleeps = <<>>
           /\ calls = 1
           /\ (rpc = "thrown" => thrown = curErr)

\* C3: in every saved record, under each criterion id of the industry there is
\* a value with a non-empty actions list (whatever the parsed record held
\* under that id).
C3_CriteriaComplete ==
    npc = "complete"
        => \A rec \in nStore : \A i \in 1..relevantCriteria : rec.criteria[i] = "actions"

\* C4: in every record that reaches extraction_complete, carbonFootprint is an
\* object with exactly the twelve scope_year keys for 2022, 2023 and 2024,
\* each of them a string.
C4_CarbonMatrixExact ==
    (npc = "complete" /\ nStatus = "extraction_complete")
        => \A rec \in nStore :
             /\ rec.carbonFootprint.kind = "object"
             /\ \A k \in AllCfKeys :
                  IF k \in MatrixKeys
                    THEN rec.carbonFootprint.fields[k].kind = "string"
                    ELSE rec.carbonFootprint.fields[k].kind = "absent"

\* C5: when no JSON object can be recovered from the model's response (every
\* strategy of the generic cascade fails on it), extractDataFromUrl returns
\* status extraction_failed with a fallback record and that status is
\* persisted, whichever prompt was selected.
C5_UnrecoverableEndsFailed ==
    (/\ epc = "returned"
     /\ respKind = "text"
     /\ ~Recover(responseText, [company EXCEPT !.customPrompt = "none"], FALSE).success)
        => /\ result.status = "extraction_failed"
           /\ result.fallbackData
           /\ statusStore = "extraction_failed"

\* C6: every request list handed to batches.create holds exactly one request
\* for each company whose URL type is pdf and none for a website or an
\* unknown URL.
C6_OnlyPdfSubmitted ==
    \A k \in 1..Len(submitted) : \A m \in Members :
        Cardinality({i \in 1..Len(submitted[k]) : submitted[k][i] = m})
            = IF DetermineUrlType(members[m]) = "pdf" THEN 1 ELSE 0

C6_Witness ==
    /\ submitted # <<>>
    /\ \E m \in Members : DetermineUrlType(members[m]) = "pdf"
    /\ \E m \in Members : DetermineUrlType(members[m]) = "website"

\* C7: once createBatchExtractionRequest has finished, by returning the batch
\* or by throwing, every company it excluded has the persisted status
\* extraction_skipped with its exclusion reason.
C7_ExcludedStaySkipped ==
    bpc \in {"created", "threw"}
        => \A m \in Members :
             DetermineUrlType(members[m]) # "pdf"
                => bStatus[m] = StatusRow("extraction_skipped",
                                          ExclusionReason(DetermineUrlType(members[m])))

\* C8: with concurrency limit L >= 1, the number of invocations of fn started
\* and not yet settled never exceeds L.
C8_InFlightBounded == Cardinality(InFlight) <= concurrency

C8_Witness ==
    /\ concurrency >= 2
    /\ Cardinality(InFlight) = concurrency
    /\ \E i \in Items : settled[i] # "pending"

\* C9: when extractDataFromUrl has returned, its result carries one of the
\* terminal statuses and that status is the last one this call wrote to the
\* status store.
C9_TerminalPersisted ==
    epc = "returned"
        => /\ result.status \in {"extraction_skipped", "extraction_complete",
                                 "extraction_failed"}
           /\ statusWrites # <<>>
           /\ statusWrites[Len(statusWrites)].status = result.status
           /\ statusStore = result.status

\* C10: once the model has returned text, no recovery strategy has run and no
\* status has been persisted unless the raw response file already holds that
\* text; in direct extraction and for every succeeded result of a batch.
C10_RawSavedFirst ==
    /\ (respKind = "text" /\ (strategiesRun # <<>> \/ statusWrites # <<>>))
          => rawStore = {responseText}
    /\ \A m \in Members :
         (/\ bResult[m] = "succeeded"
          /\ \/ bTried[m] # <<>>
             \/ bStatus[m].status \in {"extraction_complete", "extraction_failed"})
            => bRaw[m] = {bText[m]}

C10_Witness ==
    /\ epc = "returned"
    /\ respKind = "text"
    /\ Len(strategiesRun) = 4
    /\ ~parseSuccess
    /\ result.status = "extraction_failed"
    /\ rawStore = {responseText}

\* C11: when the website content of a website record cannot be fetched, the
\* extraction has returned extraction_failed with the content-extraction
\* message as its only status write, no prompt was chosen and the model was
\* not called.
C11_WebFailureEndsFailed ==
    (/\ DetermineUrlType(company.url) = "website"
     /\ company.shouldUpdate # "false"
     /\ epc \notin {"idle", "start", "web"}
     /\ extractedWebContent = "null")
        => /\ epc = "returned"
           /\ promptUsed = "none"
           /\ respKind = "none"
           /\ rawStore = {}
           /\ result.status = "extraction_failed"
           /\ result.error
           /\ statusWrites = <<StatusRow("extraction_failed",
                                         "Website content extraction failed")>>

C11_Witness ==
    /\ DetermineUrlType(company.url) = "website"
    /\ company.customPrompt = "xml"
    /\ company.industry = "construction"
    /\ epc = "returned"
    /\ extractedWebContent = "null"
    /\ statusStore = "extraction_failed"

\* C12: once the response has been parsed, the XML mapping was used exactly
\* when the prompt that was sent is the industry template or a custom prompt
\* holding the <sustainability_analysis> tag; otherwise the JSON strategies
\* were used.
C12_ShapeFollowsPromptSent ==
    (epc \in {"outcome", "returned"} /\ strategiesRun # <<>>)
        => ((strategiesRun[1] = "xml")
               <=> \/ promptUsed = "industry"
                   \/ (promptUsed = "custom" /\ company.customPrompt = "xml"))

\* C13: after an extraction that returned extraction_complete or
\* extraction_failed, <companyId>_extracted.json exists: it holds the parsed
\* record on extraction_complete and the fallback record on
\* extraction_failed.
C13_TerminalRecordStored ==
    (epc = "returned" /\ result.status \in {"extraction_complete", "extraction_failed"})
        => /\ recordStore # {}
           /\ (result.status = "extraction_complete" => recordStore = {extractedJson})
           /\ (result.status = "extraction_failed" => recordStore = {"fallback"})

\* C14: for a batch member whose result is errored, expired or canceled, the
\* error of the pushed result and the message of the status written are
\* exactly the reason the upstream result supplied.
C14_UpstreamReasonVerbatim ==
    \A m \in DOMAIN bResult :
        bResult[m] \in ResultErrors
            => /\ bStatus[m].status = "extraction_failed"
               /\ bError[m] = bUpstream[m]
               /\ bStatus[m].message = bUpstream[m]

\* C15: processBatchResults never throws on account of a member's response,
\* and when it has returned every member of the batch has its own terminal
\* status.
C15_BadMemberNeverAborts ==
    /\ bpc # "results_threw"
    /\ bpc = "completed"
          => \A i \in 1..Len(submitted[1]) :
                bStatus[submitted[1][i]].status
                    \in {"extraction_complete", "extraction_failed"}

\* C16: the persisted extraction status of a company never moves backward:
\* from no status to extraction_in_progress to one of extraction_complete,
\* extraction_failed, extraction_skipped (no reset is among the steps here).
C16_StatusOnlyForward ==
    [][LET rank(st) == CASE st = "none" -> 0
                         [] st = "extraction_in_progress" -> 1
                         [] OTHER -> 2
       IN  \A m \in DOMAIN bStatus \cap DOMAIN bStatus' :
               rank(bStatus[m].status) <= rank(bStatus'[m].status)]_vars

\* C17: the record saved by the earlier extractDataFromUrl is a fixed point of
\* its normalization: normalizing it again does not throw and changes nothing
\* in its criteria, its carbonFootprint or its companyDetails.
C17_NormalizeIdempotent ==
    (npc = "complete" /\ nVersion = "direct_earlier")
        => \A rec \in nStore : ~NormalizeThrows(rec) /\ NormalizeRecord(rec) = rec

\* A saved record that took a placeholder and a legacy migration
C17_Witness ==
    /\ npc = "complete"
    /\ nVersion = "direct_earlier"
    /\ \E rec \in nStore :
          /\ rec.criteria[1] = "actions"
          /\ rec.carbonFootprint.fields[CfKey("scope1", "2021")] = Str("1.5 t", "")
          /\ rec.carbonFootprint.fields[CfKey("scope1", "")] = Absent
          /\ rec.companyDetails.website = "url"

\* C18: in a record saved by the earlier extractDataFromUrl whose parsed
\* carbonFootprint had any of scope1, scope2, scope3, total, none of these
\* four keys remains, and each legacy string is found, its "(YYYY)" stripped,
\* under <scope>_<year> for the year its own value names, 2023 if it names
\* none. (extractedData keeps the parsed criteria and carbonFootprint until
\* the normalization of carbonFootprint, which is the step checked.)
C18_LegacyMigrated ==
    [][(/\ npc = "carbon"
        /\ npc' = "criteria"
        /\ extractedData.carbonFootprint.kind = "object"
        /\ \E sc \in Scopes :
              extractedData.carbonFootprint.fields[CfKey(sc, "")].kind # "absent")
         => LET in == extractedData.carbonFootprint.fields
                out == extractedData'.carbonFootprint.fields
            IN  /\ \A sc \in Scopes : out[CfKey(sc, "")].kind = "absent"
                /\ \A sc \in Scopes :
                      in[CfKey(sc, "")].kind = "string"
                          => out[CfKey(sc, MigrationYear(in[CfKey(sc, "")]))]
                                 = StripYear(in[CfKey(sc, "")])]_vars

\* C19: what the JSON strategies recover from a text is the result of the
\* first of direct parse, fenced block, balanced-brace scan, regex, largest
\* block with cleanup, heuristic repair that succeeds on it (nothing if none
\* does): in extractDataFromUrl when the XML mapping is not used, and for
\* every succeeded batch result handled by parseJSON. In particular a text
\* that is a JSON object and holds a fenced block yields that object.
C19_FirstStrategyWins ==
    LET first(t) ==
            IF DirectParse(t) # "invalid" THEN DirectParse(t)
            ELSE IF CodeBlockParse(t) # "invalid" THEN CodeBlockParse(t)
            ELSE IF InlineObjectParse(t) # "invalid" THEN InlineObjectParse(t)
            ELSE IF BalancedParse(t) # "invalid" THEN BalancedParse(t)
            ELSE IF RegexBracesParse(t) # "invalid" THEN RegexBracesParse(t)
            ELSE IF CleanedBlockParse(t) # "invalid" THEN CleanedBlockParse(t)
            ELSE IF RepairBrokenJSON(t) # "invalid" THEN RepairBrokenJSON(t)
            ELSE "none"
    IN  /\ (/\ epc \in {"outcome", "returned"}
            /\ respKind = "text"
            /\ ~UsesXmlBranch(company, industrySpecificPrompt))
               => /\ extractedJson = first(responseText)
                  /\ parseSuccess = (first(responseText) # "none")
                  /\ DirectParse(responseText) # "invalid"
                        => strategiesRun = <<"direct">>
        /\ \A m \in DOMAIN bTried :
               (bTried[m] # <<>> /\ bTried[m][Len(bTried[m])] = "shared_parser")
                   => bRecord[m] = IF first(bText[m]) = "none" THEN {}
                                   ELSE {first(bText[m])}

\* A response that is a JSON object holding a fenced block with another one
C19_Witness ==
    /\ epc = "returned"
    /\ responseText = <<"D">>
    /\ CodeBlockParse(responseText) = "E"
    /\ extractedJson = "D"
    /\ recordStore = {"D"}

\* C20: a call of parseJSON on a text returns an object; when that object
\* says success = false it has a message, and its originalText is the first
\* 500 characters of the text followed by '...'.
C20_FailureIsAValue ==
    /\ ppc \in {"idle", "call", "returned"}
    /\ (ppc = "returned" /\ ~pResult.success)
          => /\ pResult.message # ""
             /\ pResult.originalText.ellipsis
             /\ pResult.originalText.text = Substring(pText, OriginalTextLength)

\* A failure on a text of more than 500 characters
C20_Witness ==
    /\ ppc = "returned"
    /\ ~pResult.success
    /\ TextLength(pText) > OriginalTextLength
    /\ pResult.originalText.text.part > 0

(***************************************************************************)
(* C21: batch result processing of a succeeded member produces the same    *)
(* record as the direct Orchestrator does for the same response text: the  *)
(* member has a record exactly when the direct recovery of its text (a run *)
(* without custom or industry prompt, as the batch request was built)      *)
(* succeeds, and then it is the record the direct recovery yields.         *)
(***************************************************************************)
C21_BatchSameAsDirect ==
    \A m \in Members :
        bTried[m] # <<>> =>
            LET c == [url |-> members[m], industry |-> "", shouldUpdate |-> "undefined",
                      customPrompt |-> "none"]
                d == Recover(bText[m], c, FALSE)
            IN  /\ (bRecord[m] # {}) = d.success
                /\ d.success => bRecord[m] = {d.data}

(***************************************************************************)
(* C22: a record that is a member of a batch job still active (submitted,  *)
(* its results not yet processed) is not submitted again by a later run:   *)
(* every record is a member of at most one active batch job.               *)
(***************************************************************************)
C22_OneActiveBatchPerRecord ==
    \A r \in Records :
        Cardinality({b \in Batches : jRow[b] = "in_progress" /\ r \in jMembers[b]}) <= 1

(***************************************************************************)
(* C26: processBatchResults called on a batch that checkBatchStatus finds  *)
(* not ended returns status in_progress without reading the result stream, *)
(* and leaves every member status, the batch status and the record store   *)
(* unchanged.                                                              *)
(***************************************************************************)
C26_NotEndedChangesNothing ==
    [][(jCalls' = jCalls + 1 /\ jCall'.retrieved = "in_progress")
         => /\ jCall'.returned = "in_progress"
            /\ UNCHANGED <<jRow, jStatus, jStored, jStreamed>>]_vars

C26_Witness ==
    /\ jCall.by = "direct"
    /\ jCall.retrieved = "in_progress"
    /\ jCall.returned = "in_progress"
    /\ jRow[jCall.batch] = "in_progress"
    /\ \E r \in jMembers[jCall.batch] : jStatus[r] = "extraction_in_progress"

(***************************************************************************)
(* C30: after processBatchResults has run on an ended batch the batch is   *)
(* no longer active, 'completed' when it returned and 'error' when it      *)
(* threw; so checkAndProcessCompletedBatches reads the result stream of a  *)
(* batch at most once, and never that of a batch processed before.         *)
(***************************************************************************)
C30_ProcessedAtMostOnce ==
    /\ \A b \in Batches : \A i \in DOMAIN jStreamed[b] :
           jStreamed[b][i] = "poll" => i = 1
    /\ \A b \in Batches : jStreamed[b] # <<>> => jRow[b] \in {"completed", "error"}
    /\ jCall.retrieved = "ended" =>
           jRow[jCall.batch] = IF jCall.returned = "completed" THEN "completed" ELSE "error"

C30_Witness ==
    \E b \in Batches :
        /\ jStreamed[b] = <<"poll">>
        /\ jRow[b] = "error"
        /\ jCall = [by |-> "poll", batch |-> b, retrieved |-> "ended", returned |-> "threw"]
        /\ jpc = "idle"

(***************************************************************************)
(* C25: once processBatchResults has returned status 'completed', every    *)
(* record id stored as a member of the batch has a terminal extraction     *)
(* status (complete, failed or skipped); none is left in progress.         *)
(***************************************************************************)
C25_MembersTerminalWhenCompleted ==
    (bpc = "completed" /\ batchInfo.status = "completed") =>
        \A i \in DOMAIN batchInfo.companyIds :
            bStatus[batchInfo.companyIds[i]].status \in
                {"extraction_complete", "extraction_failed", "extraction_skipped"}

(***************************************************************************)
(* C23: recovery is deterministic: the structured record recovered from a  *)
(* text does not depend on when recovery is run. For the xml shape: the    *)
(* record mapped from a response is the one mapped from it in any year.    *)
(***************************************************************************)
C23_RecoveryIndependentOfTime ==
    xpc = "mapped" =>
        \A year \in {2025, 2026} : MappedData(xField, xContent, year) = xData

(***************************************************************************)
(* C28: in a record mapped by the XML branch each of the seven semantic    *)
(* slots has a non-empty actions list whose every entry starts with the    *)
(* bullet prefix '# ', whatever its criteria tag holds (missing, blank or  *)
(* any text).                                                              *)
(***************************************************************************)
C28_SlotsHaveBulletedActions ==
    xpc = "mapped" =>
        /\ {xData.slots[k].slot : k \in DOMAIN xData.slots}
               = {SlotNames[k] : k \in DOMAIN SlotNames}
        /\ \A k \in DOMAIN xData.slots :
               /\ xData.slots[k].actions # <<>>
               /\ \A i \in DOMAIN xData.slots[k].actions :
                      SubSeq(xData.slots[k].actions[i], 1, 2) = <<"#", " ">>

(***************************************************************************)
(* C24: for every industry tag, recognized, unrecognized or empty,         *)
(* getIndustryCriteria returns a list of exactly 7 criteria, and that list *)
(* is the fixed default set whenever the tag matches no loaded industry    *)
(* (neither as it is, cleaned, nor as a part of a key, nor by the part     *)
(* after its last '_').                                                    *)
(***************************************************************************)
C24_SevenCriteriaOrDefault ==
    gpc = "returned" =>
        /\ gResult.kind = "array"
        /\ Len(gResult.ids) = 7
        /\ (gTable = {} \/ gIndustry \in {"", "mining", "constructor", "x_constructor"})
               => gResult = CriteriaArray(DefaultCriteria)

(***************************************************************************)
(* C29: when no call of fn rejects, concurrentMap resolves with an array   *)
(* as long as the input whose i-th element is what fn returned for the     *)
(* i-th item, whatever the order in which the calls finished.              *)
(***************************************************************************)
C29_ResultsInInputOrder ==
    cpc = "done" =>
        /\ Len(cReturn) = items
        /\ \A i \in Items : cReturn[i] = <<"fn", i>>

\* Three items were mapped two at a time and the array was returned
C29_Witness ==
    /\ cpc = "done"
    /\ items = MaxItems
    /\ concurrency < items
    /\ Len(cReturn) = items

(***************************************************************************)
(* C27: for every text, texts with unmatched closing braces included, the  *)
(* balanced-brace scan returns every top-level balanced {...} span in      *)
(* document order, both as inlined in extractDataFromUrl and as            *)
(* findBalancedJSONObjects. The spans are counted here from the brace      *)
(* depth of each position, a closing brace that closes nothing leaving the *)
(* depth at 0.                                                             *)
(***************************************************************************)
C27_ScanFindsTopLevelSpans ==
    LET t == responseText
        RECURSIVE DepthAfter(_)
        DepthAfter(i) ==
            IF i = 0 THEN 0
            ELSE IF t[i] = "{" THEN DepthAfter(i - 1) + 1
            ELSE IF t[i] = "}" /\ DepthAfter(i - 1) > 0 THEN DepthAfter(i - 1) - 1
            ELSE DepthAfter(i - 1)
        Opens(a) == DepthAfter(a - 1) = 0 /\ t[a] \in {"{", "J", "D"}
        Closers(a) == IF t[a] = "{" THEN {b \in a + 1..Len(t) : DepthAfter(b) = 0}
                      ELSE {a}
        SpanEnd(a) == CHOOSE b \in Closers(a) : \A c \in Closers(a) : b <= c
        RECURSIVE SpansFrom(_)
        SpansFrom(a) ==
            IF a > Len(t) THEN <<>>
            ELSE IF Opens(a) /\ Closers(a) # {}
              THEN <<SubSeq(t, a, SpanEnd(a))>> \o SpansFrom(SpanEnd(a) + 1)
            ELSE SpansFrom(a + 1)
    IN  (\E k \in DOMAIN strategiesRun : strategiesRun[k] = "object_scan") =>
            /\ ScanObjects(t, 1, 0, 0, FALSE) = SpansFrom(1)
            /\ FindBalancedJSONObjects(t) = SpansFrom(1)

====
